---------------------------- MODULE Spec2Model ----------------------------
(***************************************************************************)
(* A model of the recommendation core of shuny-backend:                    *)
(*   app/services/recommendation_engine.py  (AdvancedPortfolioModel)       *)
(*   app/services/fund_picker.py            (pick_funds and its helpers)   *)
(*   app/routers/recommendation.py          (get_recommendation)           *)
(*   app/models/portfolio.py                (UserProfile, RecommendedFund) *)
(*                                                                         *)
(* Numbers.  The code computes weights and rates in IEEE doubles.  Here a  *)
(* real number x is the integer round(x * ONE), ONE = 10^8, and every      *)
(* multiplication and division rounds to the nearest unit, as a double     *)
(* rounds to its nearest representable value (only coarser).  Money is in  *)
(* rupees, or in paise where the code keeps two decimals.  An absent       *)
(* (None / NULL) number is the empty tuple <<>> and a present one is <<v>>.*)
(***************************************************************************)
EXTENDS Integers, Sequences, FiniteSets, TLC

(***************************************************************************)
(* Arithmetic helpers                                                      *)
(***************************************************************************)
ONE == 10 ^ 8

Max(a, b) == IF a >= b THEN a ELSE b
Min(a, b) == IF a <= b THEN a ELSE b
Abs(a) == IF a >= 0 THEN a ELSE 0 - a

None == << >>
Some(v) == << v >>
IsNone(x) == x = << >>
Val(x) == x[1]
\* Python truthiness of an optional number: None and 0 are falsy.
Truthy(x) == IF x = << >> THEN FALSE ELSE x[1] # 0

\* <<q, r>> with a * b = q * c + r and 0 <= r < c, for a, b >= 0 and
\* 0 < c < 2^28, without ever forming the product a * b: b is taken digit by
\* digit in base 8 (base 4 when c >= 2^27), so that no intermediate value
\* leaves 32 bits.
Radix(c) == IF c < 2 ^ 27 THEN 8 ELSE 4
RECURSIVE MulDivQR(_, _, _)
MulDivStep(h, a, digit, c) ==
    LET t == h[2] * Radix(c) + (a % c) * digit
    IN  << h[1] * Radix(c) + (a \div c) * digit + (t \div c), t % c >>
MulDivQR(a, b, c) ==
    IF a = 0 \/ b = 0 THEN << 0, 0 >>
    ELSE MulDivStep(MulDivQR(a, b \div Radix(c), c), a, b % Radix(c), c)

\* a * b / c rounded to the nearest integer (half up), a, b >= 0, c > 0.
MulDiv(a, b, c) ==
    LET qr == MulDivQR(a, b, c)
    IN  IF 2 * qr[2] >= c THEN qr[1] + 1 ELSE qr[1]

\* Fixed-point product and quotient of two reals.
FMul(x, y) == MulDiv(x, y, ONE)
FDiv(x, y) == MulDiv(x, ONE, y)
\* x * (n / 100): the code's multipliers are all given to two decimals.
Times(x, n) == MulDiv(x, n, 100)
Pct(n) == n * (ONE \div 100)
Milli(n) == n * (ONE \div 1000)

\* Python's round(): n / d to the nearest integer, ties to the even one.
RoundHalfEven(n, d) ==
    LET q == n \div d
        r == n % d
    IN  IF 2 * r > d \/ (2 * r = d /\ q % 2 = 1) THEN q + 1 ELSE q


(***************************************************************************)
(* State                                                                   *)
(***************************************************************************)
VARIABLES
    ASSET_RETURNS,          \* class-level table of AdvancedPortfolioModel
    INFLATION_MATRIX,       \* class-level table of AdvancedPortfolioModel
    BEHAVIOR_ADJUSTMENTS,   \* class-level table of AdvancedPortfolioModel
    ASSET_CLASS_MAPPING,    \* module-level table of fund_picker
    store,                  \* the mutual_funds table: code -> fund record
    dbMode,                 \* "up", "transient" (first query of a call fails) or "down"
    pc,                     \* per request: position in its handler
    profile,                \* per request: the caller's UserProfile
    allocation,             \* per request: the allocation dict being built
    phase,                  \* per request: last adjustment step applied to allocation
    corpus,                 \* per request: target corpus (rupees)
    base_sip,               \* per request: calculate_sip_amount's result (paise)
    affordability,          \* per request: validate_affordability's dict
    pickArgs,               \* per request: the arguments of the pick_funds call
    picked,                 \* per request: outcome of the last pick_funds call
    recommended_funds,      \* per request: asset class -> list of fund dicts
    fund_warnings,          \* per request: the orchestrator's fund warnings
    queries,                \* per request: store queries issued so far
    result,                 \* per request: what the handler returned or raised
    llm,                    \* per request: which narrative steps failed, and their outputs
    holdings,               \* the holdings list given to the portfolio analyzer
    analysis                \* the analyzer's position and what it has computed

tables == << ASSET_RETURNS, INFLATION_MATRIX, BEHAVIOR_ADJUSTMENTS, ASSET_CLASS_MAPPING >>
vars == << ASSET_RETURNS, INFLATION_MATRIX, BEHAVIOR_ADJUSTMENTS, ASSET_CLASS_MAPPING,
           store, dbMode, pc, profile, allocation, phase, corpus, base_sip,
           affordability, pickArgs, picked, recommended_funds, fund_warnings,
           queries, result, llm, holdings, analysis >>
portfolio == << holdings, analysis >>

AssetClasses == << "equity", "debt", "gold" >>

(***************************************************************************)
(* The class-level tables as the source writes them                        *)
(***************************************************************************)
AssetReturnsTable ==
    [ equity |-> [ long_term |-> Pct(12), medium_term |-> Pct(10), short_term |-> Pct(8) ],
      debt   |-> [ long_term |-> Milli(75), medium_term |-> Pct(7), short_term |-> Milli(65) ],
      gold   |-> Pct(6) ]

InflationTable ==
    [ metro  |-> [ default |-> Milli(65), education |-> Pct(8),   retirement |-> Pct(7) ],
      tier_1 |-> [ default |-> Pct(6),    education |-> Milli(75), retirement |-> Milli(65) ],
      tier_2 |-> [ default |-> Milli(55), education |-> Pct(7),   retirement |-> Pct(6) ],
      town   |-> [ default |-> Pct(5),    education |-> Milli(65), retirement |-> Milli(55) ],
      rural  |-> [ default |-> Milli(45), education |-> Pct(6),   retirement |-> Pct(5) ] ]

\* Each entry lists (asset, delta) in the dict's insertion order.
BehaviorTable ==
    [ panic_sell |-> << << "equity", 0 - Pct(15) >>, << "gold", Pct(5) >> >>,
      buy_more   |-> << << "equity", Pct(10) >>, << "debt", 0 - Pct(5) >> >> ]

\* (category keyword, priority score in hundredths), in list order.
AssetClassTable ==
    [ equity |-> << << "Large Cap", 90 >>, << "Flexi Cap", 85 >>, << "Index", 80 >>,
                    << "ELSS", 75 >>, << "Mid Cap", 70 >>, << "Small Cap", 60 >>,
                    << "Sectoral", 50 >>, << "Thematic", 45 >> >>,
      debt   |-> << << "Liquid", 95 >>, << "Overnight", 90 >>, << "Short Duration", 85 >>,
                    << "Corporate Bond", 80 >>, << "Banking", 75 >>, << "Gilt", 70 >>,
                    << "Credit Risk", 60 >>, << "Long Duration", 50 >> >>,
      gold   |-> << << "Gold", 100 >> >> ]

(***************************************************************************)
(* AllocationEngine: recommendation_engine.py                              *)
(***************************************************************************)
\* str.lower() and the "in" substring test on the preference text.
HasEsg(preference) == preference \in { "esg", "ESG focus", "esg, tax-saving" }
HasTax(preference) == preference \in { "tax", "tax-saving", "esg, tax-saving" }

get_inflation_rate(p) ==
    LET row == INFLATION_MATRIX[p.location]
        base_rate == row.default
    IN  IF p.investment_goal \in { "child_education", "retirement", "early_retirement" }
        THEN IF p.investment_goal = "child_education" THEN row.education ELSE row.retirement
        ELSE base_rate

\* x ** n on fixed-point reals, by squaring.
RECURSIVE FPow(_, _)
FPow(x, n) ==
    IF n = 0 THEN ONE
    ELSE LET h == FPow(x, n \div 2)
             s == FMul(h, h)
         IN  IF n % 2 = 1 THEN FMul(s, x) ELSE s

\* round(goal_amount * (1 + inflation) ** years, 2), kept to the rupee.
calculate_goal_corpus(p) ==
    MulDiv(Val(p.goal_amount), FPow(ONE + get_inflation_rate(p), p.goal_timeline_years), ONE)

get_expected_return(asset_class, years) ==
    IF asset_class = "gold" THEN ASSET_RETURNS.gold
    ELSE LET row == ASSET_RETURNS[asset_class]
         IN  IF years > 7 THEN row.long_term
             ELSE IF years > 3 THEN row.medium_term ELSE row.short_term

\* The dict lookup of line 77-81 raises KeyError for very_low and very_high.
determine_base_equity_raises(p) ==
    IsNone(p.risk_tolerance_score) /\ p.risk_appetite \notin { "low", "medium", "high" }

\* determine_base_equity without the clamp of line 98.
determine_base_equity_unclamped(p) ==
    LET s == p.risk_tolerance_score
        b0 == IF ~IsNone(s)
              THEN IF Val(s) >= 80 THEN Pct(85)
                   ELSE IF Val(s) >= 60 THEN Pct(70)
                   ELSE IF Val(s) >= 40 THEN Pct(50) ELSE Pct(30)
              ELSE CASE p.risk_appetite = "low" -> Pct(30)
                     [] p.risk_appetite = "medium" -> Pct(60)
                     [] p.risk_appetite = "high" -> Pct(85)
        b1 == IF Truthy(p.income)
              THEN IF Val(p.income) > 2000000 THEN Times(b0, 115)
                   ELSE IF Val(p.income) > 1000000 THEN Times(b0, 105)
                   ELSE IF Val(p.income) < 500000 THEN Times(b0, 85) ELSE b0
              ELSE b0
    IN  IF p.employment_status = "retired" THEN Times(b1, 60)
        ELSE IF p.employment_status = "student" THEN Times(b1, 120) ELSE b1

determine_base_equity(p) ==
    LET s == p.risk_tolerance_score
        b0 == IF ~IsNone(s)
              THEN IF Val(s) >= 80 THEN Pct(85)
                   ELSE IF Val(s) >= 60 THEN Pct(70)
                   ELSE IF Val(s) >= 40 THEN Pct(50) ELSE Pct(30)
              ELSE CASE p.risk_appetite = "low" -> Pct(30)
                     [] p.risk_appetite = "medium" -> Pct(60)
                     [] p.risk_appetite = "high" -> Pct(85)
        b1 == IF Truthy(p.income)
              THEN IF Val(p.income) > 2000000 THEN Times(b0, 115)
                   ELSE IF Val(p.income) > 1000000 THEN Times(b0, 105)
                   ELSE IF Val(p.income) < 500000 THEN Times(b0, 85) ELSE b0
              ELSE b0
        b2 == IF p.employment_status = "retired" THEN Times(b1, 60)
              ELSE IF p.employment_status = "student" THEN Times(b1, 120) ELSE b1
    IN  Min(Max(b2, Pct(10)), Pct(95))

Total(a) == a.equity + a.debt + a.gold

\* sum(allocation.values()) and {k: v / total}.
Normalize(a) ==
    LET total == Total(a)
    IN  [ equity |-> FDiv(a.equity, total), debt |-> FDiv(a.debt, total),
          gold |-> FDiv(a.gold, total) ]

\* Lines 117-129: glide path, gold and debt.
glide_factor(p) == Max(ONE \div 2, ONE - MulDiv(p.goal_timeline_years, ONE, 30))

GlideGoldDebt(p, base_equity) ==
    LET equity == FMul(base_equity, glide_factor(p))
        gold == IF p.investment_goal \in { "retirement", "early_retirement" } THEN Pct(8)
                ELSE IF p.investment_goal \in { "child_education", "wealth_growth" } THEN Pct(7)
                ELSE Pct(5)
    IN  [ equity |-> equity, debt |-> ONE - equity - gold, gold |-> gold ]

\* Lines 131-142: preference-based tilting.
PreferenceTilt(a, p) ==
    IF p.preference = "" THEN a
    ELSE [ equity |-> IF HasEsg(p.preference) THEN Times(a.equity, 110) ELSE a.equity,
           debt   |-> IF HasTax(p.preference) THEN Times(a.debt, 115) ELSE a.debt,
           gold   |-> a.gold ]

\* Lines 144-150: liquidity overlay.
reduction_factor(a) == FDiv(Pct(10), a.equity + a.gold)

LiquidityOverlay(a, p) ==
    IF p.need_liquidity \/ p.expected_large_expense
    THEN LET keep == ONE - reduction_factor(a)
         IN  [ equity |-> IF keep >= 0 THEN FMul(a.equity, keep) ELSE 0 - FMul(a.equity, 0 - keep),
               debt   |-> a.debt + Pct(10),
               gold   |-> IF keep >= 0 THEN FMul(a.gold, keep) ELSE 0 - FMul(a.gold, 0 - keep) ]
    ELSE a

\* Lines 103-106 without max(0, ...).
RECURSIVE ApplyDeltas_unclamped(_, _, _)
ApplyDeltas_unclamped(a, adjustments, i) ==
    IF i > Len(adjustments) THEN a
    ELSE ApplyDeltas_unclamped([ a EXCEPT ![adjustments[i][1]] = a[adjustments[i][1]] + adjustments[i][2] ],
                               adjustments, i + 1)

\* Lines 103-106: allocation[asset] = max(0, allocation[asset] + adj), in dict order.
RECURSIVE ApplyDeltas(_, _, _)
ApplyDeltas(a, adjustments, i) ==
    IF i > Len(adjustments) THEN a
    ELSE LET asset == adjustments[i][1]
             adj == adjustments[i][2]
         IN  ApplyDeltas([ a EXCEPT ![asset] = Max(0, a[asset] + adj) ], adjustments, i + 1)

BehavioralDeltas(a, p) ==
    IF p.market_reactions \in DOMAIN BEHAVIOR_ADJUSTMENTS
    THEN ApplyDeltas(a, BEHAVIOR_ADJUSTMENTS[p.market_reactions], 1)
    ELSE a

apply_behavioral_adjustments(a, p) == Normalize(BehavioralDeltas(a, p))

\* Lines 155-157: {k: round(v / total, 2)}.
Round2(x) == RoundHalfEven(x, ONE \div 100) * (ONE \div 100)

FinalNormalization(a) ==
    LET n == Normalize(a)
    IN  [ equity |-> Round2(n.equity), debt |-> Round2(n.debt), gold |-> Round2(n.gold) ]

allocate_portfolio(p) ==
    FinalNormalization(
        apply_behavioral_adjustments(
            LiquidityOverlay(
                PreferenceTilt(GlideGoldDebt(p, determine_base_equity(p)), p), p), p))

get_tax_bracket(income) ==
    IF income <= 400000 THEN "0%"
    ELSE IF income <= 800000 THEN "5%"
    ELSE IF income <= 1200000 THEN "10%"
    ELSE IF income <= 1600000 THEN "15%"
    ELSE IF income <= 2000000 THEN "20%"
    ELSE IF income <= 2400000 THEN "25%" ELSE "30%"

\* The progressive tax in hundredths of a rupee-percent (rupees * 100).
ProgressiveTax100(income) ==
      Min(income - 400000, 400000) * 5
    + (IF income > 800000 THEN Min(income - 800000, 400000) * 10 ELSE 0)
    + (IF income > 1200000 THEN Min(income - 1200000, 400000) * 15 ELSE 0)
    + (IF income > 1600000 THEN Min(income - 1600000, 400000) * 20 ELSE 0)
    + (IF income > 2000000 THEN Min(income - 2000000, 400000) * 25 ELSE 0)
    + (IF income > 2400000 THEN (income - 2400000) * 30 ELSE 0)

calculate_effective_tax_rate(income) ==
    IF income <= 1200000 THEN 0
    ELSE MulDiv(ProgressiveTax100(income), ONE \div 100, income)

\* Lines 279-326 with every equity multiplier applied to the debt weight.
TaxTilt_on_debt(a, p) ==
    LET income == Val(p.income)
        years == p.goal_timeline_years
        bracket == get_tax_bracket(income)
        m1 == IF bracket = "30%" /\ years > 3 THEN 108
              ELSE IF bracket = "25%" /\ years > 3 THEN 106
              ELSE IF bracket = "20%" /\ years > 2 THEN 105
              ELSE IF bracket = "15%" /\ years > 2 THEN 103 ELSE 100
        d1 == Times(a.debt, m1)
        d2 == IF calculate_effective_tax_rate(income) > Pct(12) THEN Times(d1, 104) ELSE d1
        young == p.age < 35 /\ income > 1600000
        d3 == IF young THEN Times(d2, 110) ELSE d2
        g3 == IF young THEN Times(a.gold, 90) ELSE a.gold
        ultra == income > 5000000
        d4 == IF ultra THEN Times(d3, 112) ELSE d3
        g4 == IF ultra THEN Times(g3, 85) ELSE g3
        d5 == IF income > 2400000 /\ years > 1 THEN Times(d4, 108) ELSE d4
        d6 == IF income <= 1200000 /\ p.age < 40 THEN Times(d5, 102) ELSE d5
    IN  [ equity |-> a.equity, debt |-> d6, gold |-> g4 ]

\* Lines 279-326: the multipliers, before the closing normalization.
TaxTilt(a, p) ==
    LET income == Val(p.income)
        years == p.goal_timeline_years
        bracket == get_tax_bracket(income)
        m1 == IF bracket = "30%" /\ years > 3 THEN 108
              ELSE IF bracket = "25%" /\ years > 3 THEN 106
              ELSE IF bracket = "20%" /\ years > 2 THEN 105
              ELSE IF bracket = "15%" /\ years > 2 THEN 103 ELSE 100
        e1 == Times(a.equity, m1)
        e2 == IF calculate_effective_tax_rate(income) > Pct(12) THEN Times(e1, 104) ELSE e1
        young == p.age < 35 /\ income > 1600000
        e3 == IF young THEN Times(e2, 110) ELSE e2
        g3 == IF young THEN Times(a.gold, 90) ELSE a.gold
        ultra == income > 5000000
        e4 == IF ultra THEN Times(e3, 112) ELSE e3
        g4 == IF ultra THEN Times(g3, 85) ELSE g3
        e5 == IF income > 2400000 /\ years > 1 THEN Times(e4, 108) ELSE e4
        e6 == IF income <= 1200000 /\ p.age < 40 THEN Times(e5, 102) ELSE e5
    IN  [ equity |-> e6, debt |-> a.debt, gold |-> g4 ]

\* apply_tax_optimization without the normalization of lines 328-330.
apply_tax_optimization_unnormalized(a, p) ==
    IF ~Truthy(p.income) THEN a ELSE TaxTilt(a, p)

apply_tax_optimization(a, p) ==
    IF ~Truthy(p.income) THEN a ELSE Normalize(TaxTilt(a, p))


\* Lines 162-165: the weighted return, summed in the dict's order.
blended_return(a, years) ==
      FMul(a.equity, get_expected_return("equity", years))
    + FMul(a.debt, get_expected_return("debt", years))
    + FMul(a.gold, get_expected_return("gold", years))

\* -npf.pmt(r, n, 0, corpus) = corpus * r / ((1 + r) ** n - 1), rounded to the paisa.
calculate_sip_amount(p, a) ==
    LET n == p.goal_timeline_years * 12
        r == MulDiv(blended_return(a, p.goal_timeline_years), 1, 12)
        d == FPow(ONE + r, n) - ONE
    IN  IF d < 2 ^ 27 THEN MulDiv(calculate_goal_corpus(p), 100 * r, d)
        ELSE MulDiv(calculate_goal_corpus(p), RoundHalfEven(100 * r, 16), RoundHalfEven(d, 16))

(***************************************************************************)
(* Affordability.  Monthly amounts are exact in ticks of 1/1200 rupee:     *)
(* income / 12 is 100 * income ticks, spouse_income / 12 * 0.3 is          *)
(* 30 * spouse_income ticks, a rupee is 1200 ticks and a paisa 12.         *)
(***************************************************************************)
Tick == 12 * 100

monthly_income(p) == 100 * Val(p.income)

\* UserProfile.disposable_income (models/portfolio.py).
disposable_income(p) ==
    LET monthly_debt == IF Truthy(p.debt_obligations) THEN Tick * Val(p.debt_obligations) ELSE 0
        estimated_expenses == IF Truthy(p.monthly_expenses) THEN Tick * Val(p.monthly_expenses)
                              ELSE 70 * Val(p.income)
        spouse_contrib == IF Truthy(p.spouse_income) THEN 30 * Val(p.spouse_income) ELSE 0
    IN  Max(0, monthly_income(p) + spouse_contrib - estimated_expenses - monthly_debt)

max_affordable(p) ==
    IF disposable_income(p) > 0
    THEN Min(disposable_income(p), 25 * Val(p.income))
    ELSE 20 * Val(p.income)

\* round(q + r / c, 0) from a quotient and remainder, ties to even.
RoundQR(qr, c) ==
    IF 2 * qr[2] > c \/ (2 * qr[2] = c /\ qr[1] % 2 = 1) THEN qr[1] + 1 ELSE qr[1]

\* suggested_sip is in paise; max_affordable_amount in rupees; timeline_multiplier
\* and investment_ratio_percent in tenths.
validate_affordability(p, suggested_sip) ==
    IF ~Truthy(p.income) \/ Val(p.income) <= 0
    THEN [ affordability_issue |-> FALSE, suggested_sip |-> suggested_sip,
           original_sip |-> None, timeline_multiplier |-> None,
           max_affordable_amount |-> None, investment_ratio_percent |-> None,
           warning |-> "Income information needed for accurate recommendations" ]
    ELSE LET cap == max_affordable(p)
             ratio == RoundQR(MulDivQR(suggested_sip, 120, Val(p.income)), Val(p.income))
         IN  IF suggested_sip > cap \div 12
             THEN [ affordability_issue |-> TRUE,
                    suggested_sip |-> 100 * RoundHalfEven(cap, Tick),
                    original_sip |-> Some(suggested_sip),
                    timeline_multiplier |-> Some(RoundQR(MulDivQR(suggested_sip, 120, cap), cap)),
                    max_affordable_amount |-> Some(RoundHalfEven(cap, Tick)),
                    investment_ratio_percent |-> Some(ratio),
                    warning |-> "Suggested SIP exceeds affordable limit" ]
             ELSE [ affordability_issue |-> FALSE, suggested_sip |-> suggested_sip,
                    original_sip |-> None, timeline_multiplier |-> None,
                    max_affordable_amount |-> Some(RoundHalfEven(cap, Tick)),
                    investment_ratio_percent |-> Some(ratio),
                    warning |-> "" ]


(***************************************************************************)
(* FundSelector: fund_picker.py                                            *)
(*                                                                         *)
(* A stored fund is a row of mutual_funds.  Its float columns are kept in  *)
(* hundredths (aum 2000.0 crore is 200000); a NULL number is <<>> and a    *)
(* NULL string is "".  SQL comparisons with NULL are not true, so a row    *)
(* with a NULL column fails every filter on that column.                   *)
(***************************************************************************)
\* scheme_category.ilike("%kw%"): the keywords of the code that occur in each
\* category string (AMFI's scheme categories).
Keywords(category) ==
    CASE category = "Equity Scheme - Large Cap Fund" -> { "Large Cap", "Equity" }
      [] category = "Equity Scheme - Small Cap Fund" -> { "Small Cap", "Equity" }
      [] category = "Equity Scheme - ELSS" -> { "ELSS", "Equity" }
      [] category = "Other Scheme - Index Funds" -> { "Index" }
      [] category = "Hybrid Scheme - Equity Savings" -> { "Equity" }
      [] category = "Debt Scheme - Liquid Fund" -> { "Liquid", "Debt" }
      [] category = "Debt Scheme - Gilt Fund" -> { "Gilt", "Debt" }
      [] category = "Other Scheme - Gold ETF" -> { "Gold" }
      [] OTHER -> { }

ilike(category, keyword) == keyword \in Keywords(category)

\* name.ilike("%ESG%") or name.ilike("%Sustainable%").
NameIsEsg(name) == name \in { "SBI ESG Fund", "Axis Sustainable Equity Fund" }

Gt(x, v) == ~IsNone(x) /\ Val(x) > v
Lt(x, v) == ~IsNone(x) /\ Val(x) < v
Le(x, v) == ~IsNone(x) /\ Val(x) <= v

category_mappings(asset_class) ==
    IF asset_class \in DOMAIN ASSET_CLASS_MAPPING THEN ASSET_CLASS_MAPPING[asset_class] ELSE << >>

risk_mapping ==
    [ low      |-> { "low", "low to moderate" },
      moderate |-> { "moderate", "low to moderate", "moderately high" },
      high     |-> { "high", "very high", "moderately high" } ]

FundFilter(name, priority) == [ name |-> name, priority |-> priority ]

\* The condition of each filter of the chain, on one row.
Condition(name, f, args) ==
    CASE name = "asset_class" ->
           \E i \in 1..Len(category_mappings(args.asset_class)) :
               ilike(f.scheme_category, category_mappings(args.asset_class)[i][1])
      [] name = "basic_safety" -> Gt(f.nav, 0) /\ Gt(f.aum, 5000)
      [] name = "emergency_liquidity" ->
           ilike(f.scheme_category, "Liquid") \/ ilike(f.scheme_category, "Overnight")
      [] name = "retirement_suitable" -> Le(f.exit_load, 100)
      [] name = "short_term_stability" -> Lt(f.standard_deviation, 1200)
      [] name = "long_term_growth" -> Gt(f.return_5y, 800) \/ IsNone(f.return_5y)
      [] name = "risk_alignment" -> f.risk_level \in risk_mapping[args.risk_level]
      [] name = "beginner_friendly" ->
           \/ ilike(f.scheme_category, "Large Cap")
           \/ ilike(f.scheme_category, "Index")
           \/ ilike(f.scheme_category, "Liquid")
      [] name = "preferences" ->
           \/ (HasEsg(args.preference) /\ NameIsEsg(f.name))
           \/ (HasTax(args.preference) /\ ilike(f.scheme_category, "ELSS"))

\* sorted(filters, key=priority, reverse=True): a stable sort.
RECURSIVE SortedByPriority(_)
SortedByPriority(filters) ==
    IF Len(filters) <= 1 THEN filters
    ELSE LET i == CHOOSE k \in 1..Len(filters) :
                      /\ \A j \in 1..Len(filters) : filters[j].priority <= filters[k].priority
                      /\ \A j \in 1..(k - 1) : filters[j].priority < filters[k].priority
         IN  << filters[i] >> \o
             SortedByPriority(SubSeq(filters, 1, i - 1) \o SubSeq(filters, i + 1, Len(filters)))

Opt(cond, filter) == IF cond THEN << filter >> ELSE << >>

build_filter_chain(args) ==
    SortedByPriority(
        Opt(Len(category_mappings(args.asset_class)) > 0, FundFilter("asset_class", 10))
     \o << FundFilter("basic_safety", 9) >>
     \o Opt(args.goal_type = "emergency_fund", FundFilter("emergency_liquidity", 8))
     \o Opt(args.goal_type = "retirement", FundFilter("retirement_suitable", 7))
     \o Opt(Lt(args.timeline, 3), FundFilter("short_term_stability", 6))
     \o Opt(~Lt(args.timeline, 3) /\ Gt(args.timeline, 7) /\ args.asset_class = "equity",
            FundFilter("long_term_growth", 6))
     \o Opt(args.risk_level \in DOMAIN risk_mapping, FundFilter("risk_alignment", 5))
     \o Opt(args.experience_level = "beginner", FundFilter("beginner_friendly", 4))
     \o Opt(HasEsg(args.preference) \/ HasTax(args.preference), FundFilter("preferences", 3)) )

min_results(limit) == Max(limit * 2, 10)

\* The decision of lines 206-219 with the relaxed branch of line 217 taken
\* for an empty test query too.
Decision_relaxed_to_empty(count, priority, floor) ==
    IF count >= floor \/ priority >= 9 THEN "applied"
    ELSE IF count = 0 /\ priority < 5 THEN "skipped"
    ELSE IF priority >= 5 THEN "relaxed"
    ELSE "skipped"

\* The decision of lines 206-219 with the relaxed branch of line 217 open to
\* every priority.
Decision_relaxed_whatever_priority(count, priority, floor) ==
    IF count >= floor \/ priority >= 9 THEN "applied"
    ELSE IF count = 0 THEN "skipped"
    ELSE "relaxed"

\* Lines 198-219: one record per filter of the chain, in order: what the
\* test query counted, and whether the filter was applied, relaxed or skipped.
Decision(count, priority, floor) ==
    IF count >= floor \/ priority >= 9 THEN "applied"
    ELSE IF count = 0 /\ priority < 5 THEN "skipped"
    ELSE IF count > 0 /\ priority >= 5 THEN "relaxed"
    ELSE "skipped"

RECURSIVE FilterLoop(_, _, _, _, _)
\* Lines 206-219 for one filter, given the rows of its test query.
FilterStep(filter, current, test, floor) ==
    [ current |-> IF Decision(Cardinality(test), filter.priority, floor) = "skipped"
                  THEN current ELSE test,
      entry |-> [ name |-> filter.name, priority |-> filter.priority,
                  count |-> Cardinality(test), before |-> Cardinality(current),
                  decision |-> Decision(Cardinality(test), filter.priority, floor) ] ]

FilterNext(chain, i, step, log, args) ==
    FilterLoop(chain, i + 1, step.current, Append(log, step.entry), args)

FilterLoop(chain, i, current, log, args) ==
    IF i > Len(chain) THEN [ current |-> current, log |-> log ]
    ELSE FilterNext(chain, i,
                    FilterStep(chain[i], current,
                               { f \in current : Condition(chain[i].name, f, args) },
                               min_results(args.limit)),
                    log, args)

applied_filters(log) ==
    { log[i].name : i \in { j \in 1..Len(log) : log[j].decision = "applied" } }


\* case(*priority_cases, else_=0.1), or 0.5 without a mapping (hundredths).
RECURSIVE FirstMatch(_, _, _)
FirstMatch(category, mappings, i) ==
    IF i > Len(mappings) THEN 10
    ELSE IF ilike(category, mappings[i][1]) THEN mappings[i][2]
    ELSE FirstMatch(category, mappings, i + 1)

priority_score(f, asset_class) ==
    IF Len(category_mappings(asset_class)) = 0 THEN 50
    ELSE FirstMatch(f.scheme_category, category_mappings(asset_class), 1)

\* PostgreSQL puts NULL first under DESC: a NULL sorts as larger than any value.
NullsFirst == 2 ^ 30
Coalesce(x, d) == IF IsNone(x) THEN d ELSE Val(x)

\* The ORDER BY of lines 233-252 as a tuple to be compared term by term,
\* every term oriented so that larger comes first.
ranking_key(f, asset_class) ==
    << priority_score(f, asset_class),
       Coalesce(f.risk_adjusted_return, 0),
       Coalesce(f.aum, NullsFirst),
       0 - Coalesce(f.expense_ratio, 99900),
       Coalesce(f.rating, 0) >>

\* The ORDER BY of lines 370-372.
emergency_key(f) == << Coalesce(f.aum, NullsFirst), Coalesce(f.rating, NullsFirst) >>

RECURSIVE LexGreater(_, _, _)
LexGreater(k1, k2, i) ==
    IF i > Len(k1) THEN FALSE
    ELSE IF k1[i] # k2[i] THEN k1[i] > k2[i]
    ELSE LexGreater(k1, k2, i + 1)

\* Rows that tie on every term come out in the order the scan meets them,
\* which the query does not fix: here by code, ascending or descending.
ScanOrders == { "asc", "desc" }
ScanBefore(f, g, order) == IF order = "asc" THEN f.code < g.code ELSE f.code > g.code

\* ORDER BY ... LIMIT n over the rows of S whose sort tuples are key[f].
RECURSIVE OrderByLimit(_, _, _, _)
OrderByLimit(S, key, order, n) ==
    IF n = 0 \/ S = { } THEN << >>
    ELSE LET first == CHOOSE f \in S : \A g \in S \ { f } :
                          \/ LexGreater(key[f], key[g], 1)
                          \/ (key[f] = key[g] /\ ScanBefore(f, g, order))
         IN  << first >> \o OrderByLimit(S \ { first }, key, order, n - 1)

\* _analyze_suitability: the keys set to True.
SuitabilityHolds(tag, f, args) ==
    CASE tag = "low_cost" ->
           args.goal_type = "retirement" /\ Truthy(f.expense_ratio) /\ Lt(f.expense_ratio, 50)
      [] tag = "long_term_performer" -> Gt(args.timeline, 10) /\ Gt(f.return_5y, 1200)
      [] tag = "esg_aligned" -> HasEsg(args.preference) /\ NameIsEsg(f.name)
      [] tag = "tax_efficient" -> HasTax(args.preference) /\ ilike(f.scheme_category, "ELSS")
      [] tag = "high_rated" -> Gt(f.rating, 3)
      [] tag = "large_fund" -> Gt(f.aum, 500000)

analyze_suitability(f, args) ==
    { tag \in { "low_cost", "long_term_performer", "esg_aligned", "tax_efficient",
                "high_rated", "large_fund" } : SuitabilityHolds(tag, f, args) }

\* _calculate_selection_score, in hundredths.
calculate_selection_score(f, applied) ==
    Min(100, 50
           + (IF "risk_alignment" \in applied THEN 10 ELSE 0)
           + (IF "preferences" \in applied THEN 10 ELSE 0)
           + (IF "beginner_friendly" \in applied THEN 10 ELSE 0)
           + (IF Gt(f.rating, 3) THEN 15 ELSE 0)
           + (IF Gt(f.aum, 100000) THEN 10 ELSE 0)
           + (IF Gt(f.risk_adjusted_return, 1000) THEN 10 ELSE 0))

\* The dict of lines 262-275 and 375-388.
fund_data(f, suitability, selection_score) ==
    [ code |-> f.code, name |-> f.name, category |-> f.scheme_category,
      risk_level |-> f.risk_level, aum |-> f.aum, nav |-> f.nav,
      expense_ratio |-> f.expense_ratio, rating |-> f.rating,
      risk_adjusted_return |-> f.risk_adjusted_return, return_5y |-> f.return_5y,
      suitability |-> suitability, selection_score |-> selection_score ]

emergency_match(f, asset_class) ==
    /\ Gt(f.nav, 0)
    /\ CASE asset_class = "equity" ->
              ilike(f.scheme_category, "Large Cap") \/ ilike(f.scheme_category, "Equity")
         [] asset_class = "debt" ->
              ilike(f.scheme_category, "Liquid") \/ ilike(f.scheme_category, "Debt")
         [] asset_class = "gold" -> ilike(f.scheme_category, "Gold")
         [] OTHER -> TRUE

\* get_emergency_fallback_funds on a store that answers.
get_emergency_fallback_funds(rows, asset_class, limit, order) ==
    LET S == { f \in rows : emergency_match(f, asset_class) }
        funds == OrderByLimit(S, [ f \in S |-> emergency_key(f) ], order, Max(2, limit \div 2))
    IN  [ i \in 1..Len(funds) |-> fund_data(funds[i], { "emergency_pick" }, 30) ]


(***************************************************************************)
(* The store either answers every query ("up"), fails the first query of   *)
(* each pick_funds call and answers afterwards ("first"), or fails every   *)
(* query ("down").  A failed query raises in the caller.                   *)
(***************************************************************************)
DbModes == { "up", "first", "down" }

\* What a call returns: raised (the exception left the function) or a list.
Returned(funds, path, log, nq) ==
    [ raised |-> FALSE, funds |-> funds, path |-> path, log |-> log, queries |-> nq ]
Raised(path, nq) ==
    [ raised |-> TRUE, funds |-> << >>, path |-> path, log |-> << >>, queries |-> nq ]

\* Lines 259-276: the dicts of the rows the final query returned.
format_results(funds, log, args) ==
    [ results |-> [ i \in 1..Len(funds) |->
                      fund_data(funds[i], analyze_suitability(funds[i], args),
                                calculate_selection_score(funds[i], applied_filters(log))) ],
      log |-> log,
      queries |-> Len(log) + 1 ]

\* Lines 222-255: the ranking of the rows the filter loop kept.
final_query(loop, args, order) ==
    format_results(OrderByLimit(loop.current,
                                [ f \in loop.current |-> ranking_key(f, args.asset_class) ],
                                order, args.limit),
                   loop.log, args)

\* Lines 181-276 on a store that answers: the filter loop, ranking, formatting.
\* One count query per filter of the chain and the final query.
normal_path(rows, args, order) ==
    final_query(FilterLoop(build_filter_chain(args), 1, rows, << >>, args), args, order)

\* The k-th query a pick_funds call issues fails.
query_fails(mode, k) == mode = "down" \/ (mode = "first" /\ k = 1)

\* pick_funds, whole: the try block, the empty-result check of line 279 and
\* the handler of line 285, which queries the same store again.
final_safety_check(n, rows, args, eorder) ==
    IF Len(n.results) = 0
    THEN Returned(get_emergency_fallback_funds(rows, args.asset_class, args.limit, eorder),
                  "emergency", n.log, n.queries + 1)
    ELSE Returned(n.results, "normal", n.log, n.queries)

pick_funds(rows, mode, args, order, eorder) ==
    IF query_fails(mode, 1)
    THEN IF query_fails(mode, 2)
         THEN Raised("emergency", 2)
         ELSE Returned(get_emergency_fallback_funds(rows, args.asset_class, args.limit, eorder),
                       "emergency", << >>, 2)
    ELSE final_safety_check(normal_path(rows, args, order), rows, args, eorder)

(***************************************************************************)
(* Orchestrator: recommend_portfolio                                       *)
(***************************************************************************)
\* Line 444 without its test for a missing amount.
invalid_goal_nonpositive_only(p) == ~IsNone(p.goal_amount) /\ Val(p.goal_amount) <= 0

\* Line 444: the goal amount is missing, zero or negative.
invalid_goal(p) == ~Truthy(p.goal_amount) \/ Val(p.goal_amount) <= 0

\* The arguments of the call of lines 496-506.
fund_args(p, asset) ==
    [ asset_class |-> asset, risk_level |-> p.risk_appetite,
      goal_type |-> p.investment_goal, timeline |-> Some(p.goal_timeline_years),
      preference |-> p.preference, experience_level |-> p.investment_experience,
      limit |-> 3 ]

\* fund.get("is_fallback", False) of line 521 and of flags.py line 64.
is_fallback(d) == "is_fallback" \in DOMAIN d /\ d.is_fallback

\* Line 521.
fallback_count(funds) == Cardinality({ i \in 1..Len(funds) : is_fallback(funds[i]) })

\* Lines 491-531, one turn of the loop: the funds kept for the asset class,
\* the warning added and the queries issued.  An exception of pick_funds or
\* of the second fallback is caught by the handler of line 528.
Selected(funds, warning, nq, path) ==
    [ entry |-> TRUE, funds |-> funds, warning |-> warning, queries |-> nq, path |-> path,
      fallback_note |-> fallback_count(funds) > 0 ]

\* Lines 508-516: pick_funds returned nothing, the fallback is asked again.
second_fallback(again, nq) ==
    IF Len(again) > 0
    THEN Selected(again, "limited_options", nq, "second_fallback")
    ELSE Selected(<< >>, "none_available", nq, "empty")

\* Lines 508-531 given what pick_funds did.
keep_funds(pk, asset, rows, mode, eorder) ==
    IF pk.raised THEN Selected(<< >>, "technical_error", pk.queries, "raised")
    ELSE IF Len(pk.funds) > 0 THEN Selected(pk.funds, "", pk.queries, pk.path)
    ELSE IF query_fails(mode, pk.queries + 1)
    THEN Selected(<< >>, "technical_error", pk.queries + 1, "raised")
    ELSE second_fallback(get_emergency_fallback_funds(rows, asset, 2, eorder), pk.queries + 1)

\* select_funds with the test of line 492 passed at 0.05 as well.
select_funds_from_five_percent(p, a, asset, rows, mode, order, eorder) ==
    IF ~(a[asset] >= Pct(5))
    THEN [ entry |-> FALSE, funds |-> << >>, warning |-> "", queries |-> 0, path |-> "none",
           fallback_note |-> FALSE ]
    ELSE keep_funds(pick_funds(rows, mode, fund_args(p, asset), order, eorder),
                    asset, rows, mode, eorder)

select_funds(p, a, asset, rows, mode, order, eorder) ==
    IF ~(a[asset] > Pct(5))
    THEN [ entry |-> FALSE, funds |-> << >>, warning |-> "", queries |-> 0, path |-> "none",
           fallback_note |-> FALSE ]
    ELSE keep_funds(pick_funds(rows, mode, fund_args(p, asset), order, eorder),
                    asset, rows, mode, eorder)

\* RecommendedFund(**fund): the required fields must not be None.
valid_recommended_fund(d) ==
    /\ d.category # "" /\ d.risk_level # ""
    /\ ~IsNone(d.aum) /\ ~IsNone(d.nav) /\ ~IsNone(d.expense_ratio)

\* The fields RecommendedFund keeps of a fund dict (selection_score is dropped).
RecommendedFund(d) ==
    [ code |-> d.code, name |-> d.name, category |-> d.category,
      risk_level |-> d.risk_level, aum |-> d.aum, nav |-> d.nav,
      expense_ratio |-> d.expense_ratio, rating |-> d.rating,
      risk_adjusted_return |-> d.risk_adjusted_return, return_5y |-> d.return_5y,
      suitability |-> d.suitability ]

funds_valid(rf) ==
    \A asset \in DOMAIN rf : \A i \in 1..Len(rf[asset]) : valid_recommended_fund(rf[asset][i])

\* Lines 600-604 and UserProfile.emergency_fund_needed: without a monthly
\* expense figure the expenses are estimated as income / 12 * 0.7, which
\* raises TypeError when income is None.
emergency_fund_status_raises(p) == ~Truthy(p.monthly_expenses) /\ IsNone(p.income)

\* Lines 457-460 and 630: round(expected_return_pct, 2), in hundredths of a
\* percent.
expected_return_percent(p, a) == RoundHalfEven(blended_return(a, p.goal_timeline_years), 10000)

\* The response with the plan solved again for the affordable contribution:
\* the corpus that contribution reaches in the same time.
PortfolioRecommendation_resolved(p, a, target_corpus, aff, rf, warnings) ==
    [ recommended_allocation |-> a,
      target_corpus |-> IF aff.affordability_issue
                        THEN MulDiv(target_corpus, aff.suggested_sip, Val(aff.original_sip))
                        ELSE target_corpus,
      expected_return_percent |-> expected_return_percent(p, a),
      suggested_sip |-> aff.suggested_sip,
      recommended_funds |->
          [ asset \in DOMAIN rf |-> [ i \in 1..Len(rf[asset]) |-> RecommendedFund(rf[asset][i]) ] ],
      fund_warnings |-> warnings,
      affordability_check |-> aff,
      tax_optimization |->
          IF Truthy(p.income)
          THEN [ tax_bracket |-> get_tax_bracket(Val(p.income)),
                 elss_recommendation |->
                     IF p.goal_timeline_years >= 3
                     THEN Some(Min(15000000, MulDiv(aff.suggested_sip, 36, 10))) ELSE None ]
          ELSE [ tax_bracket |-> "", elss_recommendation |-> None ],
      llm_feedback |-> "", flags |-> { }, story |-> "" ]

\* Lines 619-632: the structured response of recommend_portfolio.
PortfolioRecommendation(p, a, target_corpus, aff, rf, warnings) ==
    [ recommended_allocation |-> a,
      target_corpus |-> target_corpus,
      expected_return_percent |-> expected_return_percent(p, a),
      suggested_sip |-> aff.suggested_sip,
      recommended_funds |->
          [ asset \in DOMAIN rf |-> [ i \in 1..Len(rf[asset]) |-> RecommendedFund(rf[asset][i]) ] ],
      fund_warnings |-> warnings,
      affordability_check |-> aff,
      tax_optimization |->
          IF Truthy(p.income)
          THEN [ tax_bracket |-> get_tax_bracket(Val(p.income)),
                 elss_recommendation |->
                     IF p.goal_timeline_years >= 3
                     THEN Some(Min(15000000, MulDiv(aff.suggested_sip, 36, 10))) ELSE None ]
          ELSE [ tax_bracket |-> "", elss_recommendation |-> None ],
      llm_feedback |-> "", flags |-> { }, story |-> "" ]

Rejected(stage, error) == [ status |-> "rejected", stage |-> stage, error |-> error ]
Answered(recommendation) == [ status |-> "ok", recommendation |-> recommendation ]
NoResult == [ status |-> "none" ]


(***************************************************************************)
(* Endpoint: get_recommendation and the three narrative services           *)
(***************************************************************************)
\* safe_convert_fund_to_dict: the dict of a RecommendedFund gains fund_code.
safe_convert_fund_to_dict(f) ==
    [ code |-> f.code, name |-> f.name, category |-> f.category,
      risk_level |-> f.risk_level, aum |-> f.aum, nav |-> f.nav,
      expense_ratio |-> f.expense_ratio, rating |-> f.rating,
      risk_adjusted_return |-> f.risk_adjusted_return, return_5y |-> f.return_5y,
      suitability |-> f.suitability, fund_code |-> f.code ]

safe_dict_conversion(rec) ==
    [ rec EXCEPT !.recommended_funds =
        [ asset \in DOMAIN @ |-> [ i \in 1..Len(@[asset]) |-> safe_convert_fund_to_dict(@[asset][i]) ] ] ]

\* PortfolioRecommendation(**response_data): the fund dicts are parsed again.
parse_response(d) ==
    [ d EXCEPT !.recommended_funds =
        [ asset \in DOMAIN @ |-> [ i \in 1..Len(@[asset]) |-> RecommendedFund(@[asset][i]) ] ] ]

\* validate_and_explain_output: the model's text, or the text of its handler.
LlmUnavailable == "Professional validation temporarily unavailable"
StoryUnavailable == "Sorry, we couldn't generate your portfolio summary story"
validate_and_explain_output(d, fails) ==
    [ raised |-> FALSE,
      llm_feedback |-> IF fails THEN LlmUnavailable ELSE "professional feedback" ]

generate_portfolio_story(d, fails) ==
    [ raised |-> FALSE, story |-> IF fails THEN StoryUnavailable ELSE "portfolio story" ]

fund_count(funds) ==
    LET n(asset) == IF asset \in DOMAIN funds THEN Len(funds[asset]) ELSE 0
    IN  n("equity") + n("debt") + n("gold")

\* The flags of sections 1, 3, 4, 5 and 9 of extract_flags (the sections on
\* risk score, emergency fund, frequency, return and alerts read fields that
\* are not part of this model).
FlagHolds(flag, d) ==
    LET funds == d.recommended_funds
        aff == d.affordability_check
        missing(asset) == asset \notin DOMAIN funds \/ Len(funds[asset]) = 0
        some_fund(P(_, _)) ==
            \E asset \in DOMAIN funds : \E i \in 1..Len(funds[asset]) : P(asset, funds[asset][i])
        costly(asset, f) == Gt(f.expense_ratio, IF asset = "equity" THEN 200 ELSE 150)
        poor(asset, f) == Truthy(f.rating) /\ Lt(f.rating, 3)
        fallback(asset, f) == is_fallback(f)
    IN  CASE flag = "missing_gold" -> missing("gold")
          [] flag = "missing_equity" -> missing("equity")
          [] flag = "missing_debt" -> missing("debt")
          [] flag = "high_expense_ratio" -> some_fund(costly)
          [] flag = "low_rating_funds" -> some_fund(poor)
          [] flag = "fallback_funds_used" -> some_fund(fallback)
          [] flag = "too_few_funds" -> fund_count(funds) < 2
          [] flag = "over_diversified" -> fund_count(funds) > 8
          [] flag = "affordability_issue" -> aff.affordability_issue
          [] flag = "high_investment_ratio" ->
               aff.affordability_issue /\ Gt(aff.investment_ratio_percent, 300)
          [] flag = "low_investment_ratio" ->
               aff.affordability_issue /\ ~Gt(aff.investment_ratio_percent, 300)
                   /\ Lt(aff.investment_ratio_percent, 100)
          [] flag = "high_tax_bracket" -> d.tax_optimization.tax_bracket = "30%"
          [] flag = "elss_recommended" -> Truthy(d.tax_optimization.elss_recommendation)

FlagNames ==
    { "missing_gold", "missing_equity", "missing_debt", "high_expense_ratio",
      "low_rating_funds", "fallback_funds_used", "too_few_funds", "over_diversified", "affordability_issue",
      "high_investment_ratio", "low_investment_ratio", "high_tax_bracket", "elss_recommended" }

\* extract_flags with a handler that returns an empty list.
extract_flags_empty_on_failure(d, fails) ==
    [ raised |-> FALSE,
      flags |-> IF fails THEN { } ELSE { flag \in FlagNames : FlagHolds(flag, d) } ]

\* extract_flags: the flags, or the one-element list of its handler.
extract_flags(d, fails) ==
    [ raised |-> FALSE,
      flags |-> IF fails THEN { "flag_extraction_error" }
                ELSE { flag \in FlagNames : FlagHolds(flag, d) } ]

\* Steps 3-5 of get_recommendation: the default, replaced by the service's
\* answer unless the call raised.
human_summary(llm_result) ==
    IF llm_result.raised THEN "LLM validation unavailable" ELSE llm_result.llm_feedback
endpoint_flags(flag_result) == IF flag_result.raised THEN { } ELSE flag_result.flags
story_summary(story_result) ==
    IF story_result.raised THEN "Story unavailable" ELSE story_result.story


(***************************************************************************)
(* Requests.  Every per-request variable is a function on Req; a request   *)
(* that is not part of a run stays "idle".                                 *)
(***************************************************************************)
Req == { 1, 2 }
Upd(f, r, v) == [ f EXCEPT ![r] = v ]

BaseProfile ==
    [ age |-> 30, income |-> Some(1200000), employment_status |-> "working_professional",
      location |-> "metro", risk_appetite |-> "medium", risk_tolerance_score |-> None,
      investment_goal |-> "wealth_growth", goal_amount |-> Some(5000000),
      goal_timeline_years |-> 10, preference |-> "", need_liquidity |-> FALSE,
      expected_large_expense |-> FALSE, market_reactions |-> "hold",
      monthly_expenses |-> None, spouse_income |-> Some(0), debt_obligations |-> Some(0),
      investment_experience |-> "beginner" ]

NoAllocation == [ equity |-> 0, debt |-> 0, gold |-> 0 ]
NoArgs == fund_args(BaseProfile, "equity")
NoLlm == [ human_summary |-> "", flags |-> { }, story_summary |-> "", failed |-> { } ]

\* The state in which request 1 (and request 2 when both is set) is at
\* position start with profile p[r], on the given store.
InitWith(start, p, args, rows, mode, sip, both) ==
    /\ ASSET_RETURNS = AssetReturnsTable
    /\ INFLATION_MATRIX = InflationTable
    /\ BEHAVIOR_ADJUSTMENTS = BehaviorTable
    /\ ASSET_CLASS_MAPPING = AssetClassTable
    /\ store = rows
    /\ dbMode = mode
    /\ pc = [ r \in Req |-> IF r = 1 \/ both THEN start ELSE "idle" ]
    /\ profile = p
    /\ allocation = [ r \in Req |-> NoAllocation ]
    /\ phase = [ r \in Req |-> "none" ]
    /\ corpus = [ r \in Req |-> 0 ]
    /\ base_sip = [ r \in Req |-> sip ]
    /\ affordability = [ r \in Req |-> None ]
    /\ pickArgs = [ r \in Req |-> args ]
    /\ picked = [ r \in Req |-> << >> ]
    /\ recommended_funds = [ r \in Req |-> << >> ]
    /\ fund_warnings = [ r \in Req |-> << >> ]
    /\ queries = [ r \in Req |-> 0 ]
    /\ result = [ r \in Req |-> NoResult ]
    /\ llm = [ r \in Req |-> NoLlm ]

(***************************************************************************)
(* PortfolioAnalyzer: portfolio_analysis.py                                *)
(*                                                                         *)
(* A holding carries its name, asset type, sector, quantity, average buy   *)
(* price and current price; prices and values are in thousandths of a      *)
(* rupee, so that round(x, 2) is a rounding.  Weights are percentages of   *)
(* the total current value; a comparison weight > limit is made on         *)
(* value * 100 > limit * total, and a reported weight is in hundredths of  *)
(* a percent (round(weight, 2)).                                           *)
(***************************************************************************)
RISK_THRESHOLDS == [ concentration_limit |-> 20, sector_limit |-> 25, asset_limit |-> 80 ]

Rupee == 1000

current_value(h) == h.current_price * h.quantity
invested_value(h) == h.avg_buy_price * h.quantity

\* The sum of the current values of the holdings at the positions I.
RECURSIVE SumOver(_, _)
SumOver(hs, I) ==
    IF I = { } THEN 0
    ELSE LET i == CHOOSE k \in I : TRUE
         IN  current_value(hs[i]) + SumOver(hs, I \ { i })

\* _calculate_basic_metrics, lines 103-113: total_current_value after the loop.
total_current_value(hs) == SumOver(hs, DOMAIN hs)

\* Line 139: round(total_current_value, 2), the value every later step divides by.
total_portfolio_value(hs) == RoundHalfEven(total_current_value(hs), 10) * 10

\* Lines 167-170 and 182-185: the value held in a sector, in an asset type.
sector_value(hs, sector) == SumOver(hs, { i \in DOMAIN hs : hs[i].sector = sector })
asset_value(hs, asset) == SumOver(hs, { i \in DOMAIN hs : hs[i].asset_type = asset })

\* (value / total_value) * 100 > limit.
Exceeds(value, total, limit) == value * 100 > limit * total

\* round(weight, 2), in hundredths of a percent.
RoundedWeight(value, total) == RoundQR(MulDivQR(value, 10000, total), total)

\* Line 129, inside the loop of line 103: the weight of the i-th holding is
\* taken against total_current_value as accumulated up to that holding.
portfolio_weight(hs, i) == RoundedWeight(current_value(hs[i]), SumOver(hs, 1..i))

\* Lines 117-133: holdings_detail.
holdings_detail(hs) ==
    [ i \in 1..Len(hs) |->
        [ name |-> hs[i].name, current_value |-> current_value(hs[i]),
          portfolio_weight |-> portfolio_weight(hs, i) ] ]

\* Lines 155-165: the dict keyed by holding.name, after the first i holdings.
RECURSIVE concentration_risk(_, _, _)
concentration_entry(h, total) ==
    [ weight |-> RoundedWeight(current_value(h), total),
      risk_level |-> IF Exceeds(current_value(h), total, 30) THEN "HIGH" ELSE "MEDIUM" ]
concentration_add(d, h, total) ==
    IF Exceeds(current_value(h), total, RISK_THRESHOLDS.concentration_limit)
    THEN (h.name :> concentration_entry(h, total)) @@ d
    ELSE d
concentration_risk(hs, i, total) ==
    IF i = 0 THEN << >>
    ELSE concentration_add(concentration_risk(hs, i - 1, total), hs[i], total)

\* The flags appended by the loop of lines 155-165, in the list's order.
concentration_flags(hs, total) ==
    LET over == SelectSeq([ i \in 1..Len(hs) |-> i ],
                          LAMBDA i : Exceeds(current_value(hs[i]), total,
                                             RISK_THRESHOLDS.concentration_limit))
    IN  [ k \in 1..Len(over) |-> << "holding", hs[over[k]].name >> ]

\* The keys of a defaultdict filled in the list's order: first occurrences.
RECURSIVE FirstSeen(_, _)
FirstSeen(keys, i) ==
    IF i = 0 THEN << >>
    ELSE LET seen == FirstSeen(keys, i - 1)
         IN  IF \E k \in 1..Len(seen) : seen[k] = keys[i] THEN seen ELSE Append(seen, keys[i])

sector_keys(hs) == FirstSeen([ i \in 1..Len(hs) |-> hs[i].sector ], Len(hs))
asset_keys(hs) == FirstSeen([ i \in 1..Len(hs) |-> hs[i].asset_type ], Len(hs))

\* Lines 172-179.
sectors_over(hs, total) ==
    SelectSeq(sector_keys(hs),
              LAMBDA s : Exceeds(sector_value(hs, s), total, RISK_THRESHOLDS.sector_limit))
sector_risk(hs, total) ==
    [ s \in { sectors_over(hs, total)[k] : k \in 1..Len(sectors_over(hs, total)) } |->
        [ weight |-> RoundedWeight(sector_value(hs, s), total),
          risk_level |-> IF Exceeds(sector_value(hs, s), total, 40) THEN "HIGH" ELSE "MEDIUM" ] ]

\* Lines 187-194.
assets_over(hs, total) ==
    SelectSeq(asset_keys(hs),
              LAMBDA a : Exceeds(asset_value(hs, a), total, RISK_THRESHOLDS.asset_limit))
asset_risk(hs, total) ==
    [ a \in { assets_over(hs, total)[k] : k \in 1..Len(assets_over(hs, total)) } |->
        [ weight |-> RoundedWeight(asset_value(hs, a), total), risk_level |-> "HIGH" ] ]

\* Lines 196-201.
risk_score(concentration, sector, asset) ==
    Min(100, Max(0, Cardinality(DOMAIN concentration) * 20
                    + Cardinality(DOMAIN sector) * 15
                    + Cardinality(DOMAIN asset) * 25))

\* Lines 203-211.
risk_result(concentration, sector, asset, flags) ==
    [ risk_score |-> risk_score(concentration, sector, asset),
      risk_level |-> IF risk_score(concentration, sector, asset) < 30 THEN "LOW"
                     ELSE IF risk_score(concentration, sector, asset) < 60 THEN "MEDIUM"
                     ELSE "HIGH",
      concentration_risk |-> concentration,
      sector_risk |-> sector,
      asset_risk |-> asset,
      risk_flags |-> flags,
      diversification_score |-> Max(0, 100 - risk_score(concentration, sector, asset)) ]

\* _analyze_portfolio_risk(holdings, total_value).
analyze_portfolio_risk(hs, total) ==
    risk_result(concentration_risk(hs, Len(hs), total),
                sector_risk(hs, total),
                asset_risk(hs, total),
                concentration_flags(hs, total)
                  \o [ k \in 1..Len(sectors_over(hs, total)) |->
                         << "sector", sectors_over(hs, total)[k] >> ]
                  \o [ k \in 1..Len(assets_over(hs, total)) |->
                         << "asset", assets_over(hs, total)[k] >> ])

\* Line 157: the division by total_value, for every holding of the list.
analyze_portfolio_risk_raises(hs, total) == Len(hs) > 0 /\ total = 0

\* _analyze_performance, lines 227-271: gain_pct > 0 makes a winner; the win
\* rate divides by len(holdings).
winners(hs) == { i \in DOMAIN hs : current_value(hs[i]) > invested_value(hs[i]) }
analyze_performance_raises(hs) == Len(hs) = 0
analyze_performance(hs) ==
    [ winners_count |-> Cardinality(winners(hs)),
      losers_count |-> Len(hs) - Cardinality(winners(hs)),
      win_rate |-> RoundHalfEven(Cardinality(winners(hs)) * 10000, Len(hs)) ]

\* Lines 318-326 and 439-444: the asset class a holding counts for.
asset_class_of(asset_type) ==
    IF asset_type \in { "stock", "mutual_fund", "etf" } THEN "equity"
    ELSE IF asset_type \in { "bond", "fd" } THEN "debt"
    ELSE IF asset_type = "gold" THEN "gold" ELSE "none"
class_value(hs, asset) ==
    SumOver(hs, { i \in DOMAIN hs : asset_class_of(hs[i].asset_type) = asset })

\* An ideal weight is round(v, 2): a whole number k of hundredths.
ideal_percent(ideal, asset) == ideal[asset] \div (ONE \div 100)

\* v * 100 on the double v nearest to k / 100 (lines 329-330) is k up to the
\* rounding of the product: one unit in the last place above k for k = 7,
\* 14, 28, 55, 56, one below for k = 29, 57, 58 (0.57 * 100 is
\* 56.99999999999999), and k itself for every other k of 0..100.  This is
\* the sign of that error.
PercentError(k) ==
    IF k \in { 7, 14, 28, 55, 56 } THEN 1 ELSE IF k \in { 29, 57, 58 } THEN 0 - 1 ELSE 0

\* Line 341: abs(current - ideal) > 10, current = (value / portfolio_value) * 100
\* and ideal = v * 100.  A real deviation other than 10 is at least 1 / total
\* away from 10 and the doubles decide as the reals do; a real deviation of
\* exactly 10 lies between two whole percents, and the errors of the two
\* products decide.
deviates(value, pv, k) ==
    IF Abs(value * 100 - k * pv) # 10 * pv THEN Abs(value * 100 - k * pv) > 10 * pv
    ELSE IF value * 100 > k * pv THEN PercentError(k + 10) - PercentError(k) > 0
    ELSE PercentError(k) - PercentError(k - 10) > 0

\* Lines 336-349: the entries of rebalancing_needed, in the order of line 336.
rebalancing_needed(hs, ideal, pv) ==
    LET over == SelectSeq(AssetClasses,
                          LAMBDA a : deviates(class_value(hs, a), pv, ideal_percent(ideal, a)))
    IN  [ n \in 1..Len(over) |->
            [ asset |-> over[n],
              action |-> IF class_value(hs, over[n]) * 100 < ideal_percent(ideal, over[n]) * pv
                         THEN "Increase" ELSE "Decrease" ] ]

\* The deviation of a class in percentage points, times pv.
deviation(hs, ideal, pv, a) == Abs(class_value(hs, a) * 100 - ideal_percent(ideal, a) * pv)

\* Lines 333-351 and 366: round(max(0, 100 - sum of the deviations above 10), 2),
\* in hundredths of a point.
alignment_score(hs, ideal, pv) ==
    LET counted(a) == IF deviates(class_value(hs, a), pv, ideal_percent(ideal, a))
                      THEN deviation(hs, ideal, pv, a) ELSE 0
        penalty == counted("equity") + counted("debt") + counted("gold")
    IN  IF penalty >= 100 * pv THEN 0
        ELSE RoundQR(MulDivQR(100 * pv - penalty, 100, pv), pv)

\* _analyze_goal_alignment given the ideal allocation of line 310.
analyze_goal_alignment(hs, ideal, pv) ==
    [ alignment_score |-> alignment_score(hs, ideal, pv),
      ideal_allocation |-> ideal,
      rebalancing_needed |-> rebalancing_needed(hs, ideal, pv) ]

\* The sign of the rounding error of ideal_value = portfolio_value * v (line
\* 452), where it can decide a comparison.  For a portfolio worth 100 rupees
\* (or 100 rupees times a power of two) the product is that of PercentError;
\* at the other totals that lists of HoldingPool reach, a gap that lies on a
\* threshold compares as in the reals.
IdealValueError(pv, k) ==
    IF pv \in { 50 * Rupee, 100 * Rupee, 200 * Rupee } THEN PercentError(k) ELSE 0

\* Lines 455 and 464: abs(ideal_value - current_value) > portfolio_value * t / 100.
gap_exceeds(value, pv, k, t) ==
    IF Abs(k * pv - value * 100) # t * pv THEN Abs(k * pv - value * 100) > t * pv
    ELSE IF k * pv > value * 100 THEN IdealValueError(pv, k) > 0
    ELSE IdealValueError(pv, k) < 0

\* Lines 449-465: the actions, in the order of the ideal allocation's keys.
\* amount is in hundredths of a thousandth of a rupee.
rebalancing_actions(hs, ideal, pv) ==
    LET over == SelectSeq(AssetClasses,
                          LAMBDA a : gap_exceeds(class_value(hs, a), pv,
                                                 ideal_percent(ideal, a), 5))
    IN  [ n \in 1..Len(over) |->
            [ asset |-> over[n],
              action |-> IF ideal_percent(ideal, over[n]) * pv > class_value(hs, over[n]) * 100
                         THEN "BUY" ELSE "SELL",
              amount |-> Abs(ideal_percent(ideal, over[n]) * pv
                               - class_value(hs, over[n]) * 100),
              priority |-> IF gap_exceeds(class_value(hs, over[n]), pv,
                                          ideal_percent(ideal, over[n]), 15)
                           THEN "HIGH" ELSE "MEDIUM" ] ]

\* _generate_rebalancing_suggestions given the ideal allocation of line 432.
generate_rebalancing_suggestions(hs, ideal, pv) ==
    [ rebalancing_required |-> Len(rebalancing_actions(hs, ideal, pv)) > 0,
      rebalancing_actions |-> rebalancing_actions(hs, ideal, pv),
      ideal_allocation |-> ideal ]

NoRisk == [ risk_score |-> 0 ]
NoAnalysis ==
    [ step |-> "none", error |-> "", total_portfolio_value |-> 0, holdings_detail |-> << >>,
      risk_analysis |-> NoRisk,
      performance_analysis |-> [ winners_count |-> 0, losers_count |-> 0, win_rate |-> 0 ],
      goal_alignment |-> [ alignment_score |-> 0, ideal_allocation |-> NoAllocation,
                           rebalancing_needed |-> << >> ],
      rebalancing_suggestions |-> [ rebalancing_required |-> FALSE,
                                    rebalancing_actions |-> << >>,
                                    ideal_allocation |-> NoAllocation ] ]
NoPortfolio == holdings = << >> /\ analysis = NoAnalysis


(***************************************************************************)
(* Actions of the allocation engine                                        *)
(***************************************************************************)
\* allocate_portfolio, lines 115-129.  The KeyError of determine_base_equity
\* leaves the function; recommend_portfolio turns it into a ValueError.
GlidePath(r) ==
    /\ pc[r] = "base"
    /\ IF determine_base_equity_raises(profile[r])
       THEN /\ result' = Upd(result, r, Rejected("engine", "KeyError"))
            /\ pc' = Upd(pc, r, "rejected")
            /\ UNCHANGED << allocation, phase >>
       ELSE /\ allocation' = Upd(allocation, r,
                                 GlideGoldDebt(profile[r], determine_base_equity(profile[r])))
            /\ phase' = Upd(phase, r, "glide")
            /\ pc' = Upd(pc, r, "tilt")
            /\ UNCHANGED result
    /\ UNCHANGED << tables, portfolio, store, dbMode, profile, corpus, base_sip, affordability,
                    pickArgs, picked, recommended_funds, fund_warnings, queries, llm >>

\* An adjustment that keeps the working allocation in one dict of the class,
\* which every request in flight reads.
AllocationStepShared(r, at, next, adjusted, done) ==
    /\ pc[r] = at
    /\ allocation' = [ q \in Req |-> adjusted ]
    /\ phase' = Upd(phase, r, done)
    /\ pc' = Upd(pc, r, next)
    /\ UNCHANGED << tables, portfolio, store, dbMode, profile, corpus, base_sip, affordability,
                    pickArgs, picked, recommended_funds, fund_warnings, queries, result, llm >>

\* One adjustment of the allocation dict: from position at to position next.
AllocationStep(r, at, next, adjusted, done) ==
    /\ pc[r] = at
    /\ allocation' = Upd(allocation, r, adjusted)
    /\ phase' = Upd(phase, r, done)
    /\ pc' = Upd(pc, r, next)
    /\ UNCHANGED << tables, portfolio, store, dbMode, profile, corpus, base_sip, affordability,
                    pickArgs, picked, recommended_funds, fund_warnings, queries, result, llm >>

PreferenceTilting(r) ==
    AllocationStep(r, "tilt", "liquidity", PreferenceTilt(allocation[r], profile[r]), "tilt")

LiquidityOverlaying(r) ==
    AllocationStep(r, "liquidity", "behavioral",
                   LiquidityOverlay(allocation[r], profile[r]), "liquidity")

BehavioralAdjusting(r) ==
    AllocationStep(r, "behavioral", "normalize",
                   apply_behavioral_adjustments(allocation[r], profile[r]), "behavioral")

FinalNormalizing(r) ==
    AllocationStep(r, "normalize", "tax", FinalNormalization(allocation[r]), "rounded")

TaxOptimizing(r) ==
    AllocationStep(r, "tax", "sip", apply_tax_optimization(allocation[r], profile[r]), "tax")

\* calculate_sip_amount (corpus was computed at line 448).
SipCalculation(r) ==
    /\ pc[r] = "sip"
    /\ base_sip' = Upd(base_sip, r, calculate_sip_amount(profile[r], allocation[r]))
    /\ pc' = Upd(pc, r, "afford")
    /\ UNCHANGED << tables, portfolio, store, dbMode, profile, allocation, phase, corpus, affordability,
                    pickArgs, picked, recommended_funds, fund_warnings, queries, result, llm >>

\* validate_affordability.
AffordabilityValidation(r) ==
    /\ pc[r] = "afford"
    /\ affordability' = Upd(affordability, r, validate_affordability(profile[r], base_sip[r]))
    /\ pc' = Upd(pc, r, "funds")
    /\ UNCHANGED << tables, portfolio, store, dbMode, profile, allocation, phase, corpus, base_sip,
                    pickArgs, picked, recommended_funds, fund_warnings, queries, result, llm >>

(***************************************************************************)
(* SpecAlloc: allocate_portfolio followed by apply_tax_optimization, on    *)
(* every profile of AllocProfiles.                                         *)
(***************************************************************************)
AllocProfiles ==
    { [ BaseProfile EXCEPT !.risk_appetite = ra[1], !.risk_tolerance_score = ra[2],
                           !.income = Some(inc), !.employment_status = emp,
                           !.goal_timeline_years = years, !.investment_goal = goal,
                           !.preference = pref, !.need_liquidity = liq,
                           !.market_reactions = react, !.age = age ] :
        ra \in { << "low", None >>, << "medium", None >>, << "high", None >>,
                 << "very_high", None >>, << "very_low", Some(85) >> },
        inc \in { 450000, 1500000, 2200000, 6000000 },
        emp \in { "working_professional", "retired", "student" },
        years \in { 1, 2, 5, 10, 20 },
        goal \in { "retirement", "wealth_growth", "house" },
        pref \in { "", "esg", "tax-saving", "esg, tax-saving" },
        liq \in BOOLEAN,
        react \in { "panic_sell", "hold", "buy_more" },
        age \in { 30, 45 } }

InitAlloc ==
    \E p \in AllocProfiles :
        InitWith("base", [ r \in Req |-> p ], NoArgs, { }, "up", 0, FALSE)
            /\ NoPortfolio

NextAlloc ==
    \E r \in Req :
        \/ GlidePath(r)
        \/ PreferenceTilting(r)
        \/ LiquidityOverlaying(r)
        \/ BehavioralAdjusting(r)
        \/ FinalNormalizing(r)
        \/ TaxOptimizing(r)

SpecAlloc == InitAlloc /\ [][NextAlloc]_vars


(***************************************************************************)
(* SpecAfford: validate_affordability on every profile of AffordProfiles   *)
(* and every suggested SIP of SipInputs (paise).                           *)
(***************************************************************************)
AffordProfiles ==
    { [ BaseProfile EXCEPT !.income = Some(inc), !.monthly_expenses = exp,
                           !.spouse_income = Some(sp), !.debt_obligations = Some(debt) ] :
        inc \in { 240020, 600000, 1200000, 3000000 },
        exp \in { None, Some(15000), Some(40000), Some(300000) },
        sp \in { 0, 400000 },
        debt \in { 0, 10000 } }

SipInputs == { 100000, 500020, 500040, 1000000, 1250000, 2500000, 6250000, 20000000 }

InitAfford ==
    \E p \in AffordProfiles : \E sip \in SipInputs :
        InitWith("afford", [ r \in Req |-> p ], NoArgs, { }, "up", sip, FALSE)
            /\ NoPortfolio

NextAfford == \E r \in Req : AffordabilityValidation(r)

SpecAfford == InitAfford /\ [][NextAfford]_vars


(***************************************************************************)
(* The stored funds                                                        *)
(***************************************************************************)
Fund(code, name, category, nav, aum, expense_ratio, risk_level, rating, rar, return_5y) ==
    [ code |-> code, name |-> name, scheme_category |-> category, nav |-> nav, aum |-> aum,
      expense_ratio |-> expense_ratio, risk_level |-> risk_level, rating |-> rating,
      risk_adjusted_return |-> rar, return_5y |-> return_5y,
      exit_load |-> IF IsNone(aum) THEN None ELSE Some(100),
      standard_deviation |-> IF IsNone(aum) THEN None ELSE Some(1500) ]

\* A fund as the ingestion service stores it: only code, name, category and NAV.
Ingested(code, name, category, nav) ==
    Fund(code, name, category, nav, None, None, "", None, None, None)

IndexIngested == Ingested(1, "UTI Nifty Index Fund", "Other Scheme - Index Funds", Some(15000))
LargeNegative ==
    Fund(2, "Axis Bluechip Fund", "Equity Scheme - Large Cap Fund", Some(5000), Some(200000),
         Some(100), "moderately high", Some(3), Some(0 - 100), Some(900))
LargeNoReturn == [ LargeNegative EXCEPT !.code = 3, !.risk_adjusted_return = None ]
LargeTwin == [ LargeNegative EXCEPT !.code = 4 ]
ElssIngested == Ingested(5, "SBI ESG Fund", "Equity Scheme - ELSS", Some(8000))
LiquidFund ==
    Fund(6, "HDFC Liquid Fund", "Debt Scheme - Liquid Fund", Some(400000), Some(500000),
         Some(20), "low", Some(4), Some(500), Some(600))
GiltNoLabel ==
    Fund(7, "SBI Gilt Fund", "Debt Scheme - Gilt Fund", Some(6000), Some(90000),
         None, "", None, Some(300), None)
GoldFund ==
    Fund(8, "Nippon Gold ETF", "Other Scheme - Gold ETF", Some(5500), Some(80000),
         Some(50), "high", Some(3), Some(200), Some(1000))
LargeNoNav == [ LargeNegative EXCEPT !.code = 9, !.nav = Some(0) ]

Pool == { IndexIngested, LargeNegative, LargeNoReturn, LargeTwin, ElssIngested,
          LiquidFund, GiltNoLabel, GoldFund, LargeNoNav }

\* BulkSize well-kept large-cap funds, enough for the strict filters to apply.
BulkSize == 10
Bulk ==
    { Fund(100 + i, "Axis Bluechip Fund", "Equity Scheme - Large Cap Fund", Some(5000),
           Some(100000 * i), Some(100), "moderately high", Some(4), Some(1000 + i), Some(900)) :
        i \in 1..BulkSize }

MaxExtra == 2
Stores ==
    { extra : extra \in { X \in SUBSET Pool : Cardinality(X) <= MaxExtra } }
    \cup { Bulk \cup extra : extra \in { X \in SUBSET Pool : Cardinality(X) < MaxExtra } }

(***************************************************************************)
(* SpecPick: pick_funds called twice with the same arguments on the same   *)
(* store, the second call after the first has returned.                    *)
(***************************************************************************)
DefaultArgs ==
    [ asset_class |-> "equity", risk_level |-> "moderate", goal_type |-> "", timeline |-> None,
      preference |-> "", experience_level |-> "", limit |-> 3 ]

\* The arguments that differ from the defaults in at most MaxChanged of the
\* five optional criteria.
MaxChanged == 2
Changed(args) ==
    Cardinality({ k \in { "risk_level", "goal_type", "timeline", "preference",
                          "experience_level" } : args[k] # DefaultArgs[k] })
PickArgs ==
    { args \in
        { [ asset_class |-> asset, risk_level |-> risk, goal_type |-> goal, timeline |-> years,
            preference |-> pref, experience_level |-> exp, limit |-> limit ] :
            asset \in { "equity", "debt", "gold" },
            risk \in { "moderate", "medium" },
            goal \in { "", "retirement" },
            years \in { None, Some(10) },
            pref \in { "", "tax-saving" },
            exp \in { "", "beginner" },
            limit \in { 1, 3 } } : Changed(args) <= MaxChanged }

PickFunds(r) ==
    /\ pc[r] = "pick"
    /\ r = 1 \/ pc[1] = "picked"
    /\ \E order \in ScanOrders, eorder \in ScanOrders :
          \E pk \in { pick_funds(store, dbMode, pickArgs[r], order, eorder) } :
              /\ picked' = Upd(picked, r, << pk >>)
              /\ queries' = Upd(queries, r, queries[r] + pk.queries)
    /\ pc' = Upd(pc, r, "picked")
    /\ UNCHANGED << tables, portfolio, store, dbMode, profile, allocation, phase, corpus, base_sip,
                    affordability, pickArgs, recommended_funds, fund_warnings, result, llm >>

InitPick ==
    \E rows \in Stores : \E mode \in DbModes : \E args \in PickArgs :
        InitWith("pick", [ r \in Req |-> BaseProfile ], args, rows, mode, 0, TRUE)
            /\ NoPortfolio

NextPick == \E r \in Req : PickFunds(r)

SpecPick == InitPick /\ [][NextPick]_vars


(***************************************************************************)
(* Actions of the request pipeline                                         *)
(***************************************************************************)
\* UserProfile's required income field (gt=0) and its validator of
\* goal_amount (models/portfolio.py), run by the framework before
\* get_recommendation is entered.
ParseProfile(r) ==
    /\ pc[r] = "request"
    /\ IF IsNone(profile[r].income) \/ Val(profile[r].income) <= 0
       THEN /\ result' = Upd(result, r, Rejected("profile", "income: field required, > 0"))
            /\ pc' = Upd(pc, r, "rejected")
       ELSE IF ~IsNone(profile[r].goal_amount) /\ Val(profile[r].goal_amount) <= 0
       THEN /\ result' = Upd(result, r, Rejected("profile", "Goal amount must be positive"))
            /\ pc' = Upd(pc, r, "rejected")
       ELSE /\ pc' = Upd(pc, r, "validate")
            /\ UNCHANGED result
    /\ UNCHANGED << tables, portfolio, store, dbMode, profile, allocation, phase, corpus, base_sip,
                    affordability, pickArgs, picked, recommended_funds, fund_warnings,
                    queries, llm >>

\* recommend_portfolio, lines 444-445.
Validation(r) ==
    /\ pc[r] = "validate"
    /\ IF invalid_goal(profile[r])
       THEN /\ result' = Upd(result, r,
                  Rejected("engine", "Valid goal amount is required for recommendations"))
            /\ pc' = Upd(pc, r, "rejected")
       ELSE /\ pc' = Upd(pc, r, "corpus")
            /\ UNCHANGED result
    /\ UNCHANGED << tables, portfolio, store, dbMode, profile, allocation, phase, corpus, base_sip,
                    affordability, pickArgs, picked, recommended_funds, fund_warnings,
                    queries, llm >>

\* Line 448.
GoalCorpus(r) ==
    /\ pc[r] = "corpus"
    /\ corpus' = Upd(corpus, r, calculate_goal_corpus(profile[r]))
    /\ pc' = Upd(pc, r, "base")
    /\ UNCHANGED << tables, portfolio, store, dbMode, profile, allocation, phase, base_sip,
                    affordability, pickArgs, picked, recommended_funds, fund_warnings,
                    queries, result, llm >>

\* Lines 491-531: one turn of the loop over allocation.items().
FundSelection(r) ==
    /\ pc[r] = "funds"
    /\ LET asset == AssetClasses[Len(picked[r]) + 1]
       IN  \E order \in ScanOrders, eorder \in ScanOrders :
             \E sel \in { select_funds(profile[r], allocation[r], asset, store, dbMode,
                                       order, eorder) } :
                 /\ picked' = Upd(picked, r, Append(picked[r], sel))
                 /\ recommended_funds' =
                        Upd(recommended_funds, r,
                            IF sel.entry THEN recommended_funds[r] @@ (asset :> sel.funds)
                            ELSE recommended_funds[r])
                 /\ fund_warnings' =
                        Upd(fund_warnings, r,
                            (IF sel.warning = "" THEN fund_warnings[r]
                             ELSE Append(fund_warnings[r], << asset, sel.warning >>))
                            \o (IF sel.fallback_note
                                THEN << << asset, "fallback_options" >> >> ELSE << >>))
                 /\ queries' = Upd(queries, r, queries[r] + sel.queries)
    /\ pc' = Upd(pc, r, IF Len(picked[r]) + 1 = Len(AssetClasses) THEN "build" ELSE "funds")
    /\ UNCHANGED << tables, portfolio, store, dbMode, profile, allocation, phase, corpus, base_sip,
                    affordability, pickArgs, result, llm >>

\* Lines 600-639: the emergency fund status is computed, the response object
\* is built and validated; an exception of either is re-raised as ValueError
\* by the handler of line 636.
BuildRecommendation(r) ==
    /\ pc[r] = "build"
    /\ IF emergency_fund_status_raises(profile[r])
       THEN /\ result' = Upd(result, r, Rejected("engine", "TypeError"))
            /\ pc' = Upd(pc, r, "rejected")
       ELSE IF funds_valid(recommended_funds[r])
       THEN /\ result' = Upd(result, r, Answered(
                  PortfolioRecommendation(profile[r], allocation[r], corpus[r],
                      affordability[r], recommended_funds[r], fund_warnings[r])))
            /\ pc' = Upd(pc, r, "returned")
       ELSE /\ result' = Upd(result, r, Rejected("engine", "ValidationError"))
            /\ pc' = Upd(pc, r, "rejected")
    /\ UNCHANGED << tables, portfolio, store, dbMode, profile, allocation, phase, corpus, base_sip,
                    affordability, pickArgs, picked, recommended_funds, fund_warnings,
                    queries, llm >>


(***************************************************************************)
(* Actions of the endpoint.  Each narrative service may fail inside (the   *)
(* language model is unreachable, a field has an unexpected shape); its    *)
(* own handler then answers.                                               *)
(***************************************************************************)
recommendation_dict(r) == safe_dict_conversion(result[r].recommendation)

NarrativeStep(r, at, next, step, value, fails) ==
    /\ pc[r] = at
    /\ llm' = Upd(llm, r, [ llm[r] EXCEPT ![step] = value,
                                          !.failed = IF fails THEN @ \cup { step } ELSE @ ])
    /\ pc' = Upd(pc, r, next)
    /\ UNCHANGED << tables, portfolio, store, dbMode, profile, allocation, phase, corpus, base_sip,
                    affordability, pickArgs, picked, recommended_funds, fund_warnings,
                    queries, result >>

\* Step 3, lines 200-207.
LlmValidation(r) ==
    \E fails \in BOOLEAN :
        NarrativeStep(r, "returned", "flags", "human_summary",
            human_summary(validate_and_explain_output(recommendation_dict(r), fails)), fails)

\* Step 4, lines 209-215.
FlagExtraction(r) ==
    \E fails \in BOOLEAN :
        NarrativeStep(r, "flags", "story", "flags",
            endpoint_flags(extract_flags(recommendation_dict(r), fails)), fails)

\* Step 5, lines 217-224.
StoryGeneration(r) ==
    \E fails \in BOOLEAN :
        NarrativeStep(r, "story", "respond", "story_summary",
            story_summary(generate_portfolio_story(recommendation_dict(r), fails)), fails)

\* Step 7, lines 250-264.
response(rec, narrative) ==
    parse_response([ safe_dict_conversion(rec) EXCEPT
                       !.llm_feedback = narrative.human_summary,
                       !.flags = narrative.flags,
                       !.story = narrative.story_summary ])

Respond(r) ==
    /\ pc[r] = "respond"
    /\ result' = Upd(result, r, Answered(response(result[r].recommendation, llm[r])))
    /\ pc' = Upd(pc, r, "done")
    /\ UNCHANGED << tables, portfolio, store, dbMode, profile, allocation, phase, corpus, base_sip,
                    affordability, pickArgs, picked, recommended_funds, fund_warnings,
                    queries, llm >>

(***************************************************************************)
(* Spec: one request through the endpoint POST /recommend.                 *)
(***************************************************************************)
RequestProfiles ==
    { [ BaseProfile EXCEPT !.risk_appetite = ra, !.goal_amount = goal,
                           !.income = Some(inc), !.goal_timeline_years = years,
                           !.investment_goal = ig, !.market_reactions = react ] :
        ra \in { "low", "medium", "very_high" },
        goal \in { None, Some(0), Some(0 - 100000), Some(5000000) },
        inc \in { 600000, 3000000 },
        years \in { 2, 10 },
        ig \in { "wealth_growth", "retirement" },
        react \in { "hold", "panic_sell" } }
    \cup { BaseProfile, [ BaseProfile EXCEPT !.income = None ] }

RequestStores ==
    { { }, Bulk \cup { LiquidFund, GoldFund }, { LargeNegative, LargeTwin, LiquidFund },
      { ElssIngested, LiquidFund, GoldFund }, { LargeNegative, GiltNoLabel },
      { IndexIngested, LargeNoNav } }

Engine(r) ==
    \/ Validation(r)
    \/ GoalCorpus(r)
    \/ GlidePath(r)
    \/ PreferenceTilting(r)
    \/ LiquidityOverlaying(r)
    \/ BehavioralAdjusting(r)
    \/ FinalNormalizing(r)
    \/ TaxOptimizing(r)
    \/ SipCalculation(r)
    \/ AffordabilityValidation(r)
    \/ FundSelection(r)
    \/ BuildRecommendation(r)

Init ==
    \E p \in RequestProfiles : \E rows \in RequestStores : \E mode \in DbModes :
        InitWith("request", [ r \in Req |-> p ], NoArgs, rows, mode, 0, FALSE)
            /\ NoPortfolio

Next ==
    \E r \in Req :
        \/ ParseProfile(r)
        \/ Engine(r)
        \/ LlmValidation(r)
        \/ FlagExtraction(r)
        \/ StoryGeneration(r)
        \/ Respond(r)

Spec == Init /\ [][Next]_vars

(***************************************************************************)
(* SpecConc: two calls of recommend_portfolio whose steps interleave.      *)
(***************************************************************************)
ConcProfiles ==
    { BaseProfile,
      [ BaseProfile EXCEPT !.risk_appetite = "low", !.market_reactions = "panic_sell",
                           !.income = Some(3000000), !.need_liquidity = TRUE ],
      [ BaseProfile EXCEPT !.risk_appetite = "very_high", !.goal_timeline_years = 2 ],
      [ BaseProfile EXCEPT !.goal_amount = None ] }

ConcStores == { Bulk \cup { LiquidFund, GoldFund }, { LargeNegative, LargeTwin, GiltNoLabel } }

InitConc ==
    \E p1 \in ConcProfiles, p2 \in ConcProfiles : \E rows \in ConcStores :
        \E mode \in { "up", "first" } :
            InitWith("validate", << p1, p2 >>, NoArgs, rows, mode, 0, TRUE)
                /\ NoPortfolio

NextConc == \E r \in Req : Engine(r)

SpecConc == InitConc /\ [][NextConc]_vars

(***************************************************************************)
(* SpecEngine: recommend_portfolio called on a profile object, which may   *)
(* have been built without an income or a monthly expense figure.          *)
(***************************************************************************)
EngineProfiles ==
    { [ BaseProfile EXCEPT !.income = inc, !.monthly_expenses = expenses,
                           !.risk_appetite = ra, !.goal_timeline_years = years,
                           !.investment_goal = goal, !.preference = pref, !.age = age ] :
        inc \in { None, Some(300000), Some(1200000), Some(2500000) },
        expenses \in { None, Some(30000) },
        ra \in { "low", "medium", "high" },
        years \in { 2, 10 },
        goal \in { "wealth_growth", "house" },
        pref \in { "", "tax-saving" },
        age \in { 30, 45 } }

EngineStores == { { }, Bulk \cup { LiquidFund, GoldFund } }

InitEngine ==
    \E p \in EngineProfiles : \E rows \in EngineStores : \E mode \in DbModes :
        InitWith("validate", [ r \in Req |-> p ], NoArgs, rows, mode, 0, FALSE)
            /\ NoPortfolio

NextEngine == \E r \in Req : Engine(r)

SpecEngine == InitEngine /\ [][NextEngine]_vars

(***************************************************************************)
(* SpecRisk: analyze_comprehensive on a holdings list of at most           *)
(* MaxHoldings holdings and the profile of request 1.  Two holdings may    *)
(* carry the same name (two lots of one fund).  An exception in any step   *)
(* reaches the handler of line 90, which raises ValueError.                *)
(***************************************************************************)
AnalyzerStep(next) ==
    /\ analysis' = next
    /\ UNCHANGED << tables, store, dbMode, pc, profile, allocation, phase, corpus, base_sip,
                    affordability, pickArgs, picked, recommended_funds, fund_warnings,
                    queries, result, llm, holdings >>

Failed(error) == [ analysis EXCEPT !.step = "failed", !.error = error ]

\* Lines 46-47: basic_analysis = _calculate_basic_metrics(holdings).
CalculateBasicMetrics ==
    /\ analysis.step = "start"
    /\ AnalyzerStep(
                 [ analysis EXCEPT !.step = "basic",
                                   !.total_portfolio_value = total_portfolio_value(holdings),
                                   !.holdings_detail = holdings_detail(holdings) ])

\* Lines 49-50: risk_analysis = _analyze_portfolio_risk(holdings, total).
AnalyzePortfolioRisk ==
    /\ analysis.step = "basic"
    /\ AnalyzerStep(
                 IF analyze_portfolio_risk_raises(holdings, analysis.total_portfolio_value)
                 THEN Failed("ZeroDivisionError")
                 ELSE [ analysis EXCEPT !.step = "risk",
                                        !.risk_analysis =
                                            analyze_portfolio_risk(holdings,
                                                                   analysis.total_portfolio_value) ])

\* Lines 52-55: performance_analysis, then the diversification analysis,
\* which reads basic_analysis only and does not fail.
AnalyzePerformance ==
    /\ analysis.step = "risk"
    /\ AnalyzerStep(
                 IF analyze_performance_raises(holdings) THEN Failed("ZeroDivisionError")
                 ELSE [ analysis EXCEPT !.step = "performance",
                                        !.performance_analysis = analyze_performance(holdings) ])

\* Lines 57-68: goal_alignment, then the recommendations (whose own call of
\* allocate_portfolio is inside a try) and the health score.
AnalyzeGoalAlignment ==
    /\ analysis.step = "performance"
    /\ \E ideal \in { IF determine_base_equity_raises(profile[1]) THEN NoAllocation
                   ELSE allocate_portfolio(profile[1]) } :
        AnalyzerStep(
                 IF determine_base_equity_raises(profile[1]) THEN Failed("KeyError")
                     ELSE [ analysis EXCEPT !.step = "goal",
                                            !.goal_alignment =
                                                analyze_goal_alignment(holdings, ideal,
                                                    analysis.total_portfolio_value) ])

\* Lines 70-88: rebalancing, action items, tax implications, and the return.
GenerateRebalancingSuggestions ==
    /\ analysis.step = "goal"
    /\ \E ideal \in { allocate_portfolio(profile[1]) } :
        AnalyzerStep(
                 [ analysis EXCEPT !.step = "returned",
                                       !.rebalancing_suggestions =
                                           generate_rebalancing_suggestions(holdings, ideal,
                                               analysis.total_portfolio_value) ])

Holding(name, asset_type, sector, quantity, avg_buy_price, current_price) ==
    [ name |-> name, asset_type |-> asset_type, sector |-> sector, quantity |-> quantity,
      avg_buy_price |-> avg_buy_price * Rupee, current_price |-> current_price * Rupee ]

\* Holdings priced in whole rupees, and one worth 0.004 rupee.
HoldingPool ==
    { Holding("Axis Bluechip Fund", "mutual_fund", "diversified", 1, 60, 67),
      Holding("Axis Bluechip Fund", "mutual_fund", "diversified", 2, 26, 26),
      Holding("Infosys", "stock", "it", 1, 50, 47),
      Holding("Nifty ETF", "etf", "index", 2, 25, 31),
      Holding("HDFC Bank", "stock", "banking", 1, 70, 72),
      Holding("Gilt Bond", "bond", "government", 1, 25, 26),
      Holding("Gilt Bond", "bond", "government", 1, 40, 41),
      Holding("Corporate Bond", "bond", "corporate", 2, 24, 23),
      Holding("Corporate Bond", "bond", "corporate", 1, 30, 31),
      Holding("PSU Bond", "bond", "government", 1, 20, 21),
      Holding("Gold ETF", "gold", "unknown", 1, 6, 7),
      [ name |-> "Penny Stock", asset_type |-> "stock", sector |-> "unknown", quantity |-> 1,
        avg_buy_price |-> 4, current_price |-> 4 ] }

MaxHoldings == 3
Portfolios == UNION { [ 1..n -> HoldingPool ] : n \in 0..MaxHoldings }

\* Ideal allocations 0.42 / 0.51 / 0.07, 0.57 / 0.36 / 0.07 and
\* 0.20 / 0.73 / 0.07, and a risk appetite that determine_base_equity rejects.
AnalyzerProfiles ==
    { BaseProfile,
      [ BaseProfile EXCEPT !.risk_appetite = "high", !.income = Some(800000) ],
      [ BaseProfile EXCEPT !.risk_appetite = "low", !.income = Some(800000) ],
      [ BaseProfile EXCEPT !.risk_appetite = "very_high" ] }

InitRisk ==
    \E hs \in Portfolios : \E p \in AnalyzerProfiles :
        /\ InitWith("idle", [ r \in Req |-> p ], NoArgs, { }, "up", 0, FALSE)
        /\ holdings = hs
        /\ analysis = [ NoAnalysis EXCEPT !.step = "start" ]

NextRisk ==
    \/ CalculateBasicMetrics
    \/ AnalyzePortfolioRisk
    \/ AnalyzePerformance
    \/ AnalyzeGoalAlignment
    \/ GenerateRebalancingSuggestions

SpecRisk == InitRisk /\ [][NextRisk]_vars

(***************************************************************************)
(* Properties of pick_funds (SpecPick)                                     *)
(***************************************************************************)
\* C1: on a store that answers and holds at least one fund whose category
\* matches the requested asset class, pick_funds returns at least one fund,
\* whatever the arguments and the other attributes of the stored funds.
C1_NonEmptyWhenCategoryMatches ==
    \A r \in Req :
        ( /\ pc[r] = "picked"
          /\ dbMode = "up"
          /\ \E f \in store : Condition("asset_class", f, pickArgs[r]) )
        => Len(picked[r][1].funds) >= 1

\* The composite key as documented, on a returned dict: an absent
\* risk-adjusted return below every present one, an absent expense ratio
\* last, an absent rating lowest.
claimed_key(d, asset_class) ==
    << IF Len(category_mappings(asset_class)) = 0 THEN 50
       ELSE FirstMatch(d.category, category_mappings(asset_class), 1),
       Coalesce(d.risk_adjusted_return, 0 - NullsFirst),
       Coalesce(d.aum, NullsFirst),
       0 - Coalesce(d.expense_ratio, NullsFirst),
       Coalesce(d.rating, 0 - NullsFirst) >>

\* C4: the list pick_funds returns from its normal path is sorted by the
\* documented composite key, a fund without risk-adjusted return coming after
\* every fund of its category that has one, negative values included.
C4_NormalPathSortedNullsLowest ==
    \A r \in Req :
        (pc[r] = "picked" /\ picked[r][1].path = "normal")
        => \A i, j \in 1..Len(picked[r][1].funds) :
               i < j => ~LexGreater(claimed_key(picked[r][1].funds[j], pickArgs[r].asset_class),
                                    claimed_key(picked[r][1].funds[i], pickArgs[r].asset_class), 1)

\* C5: pick_funds never lets an exception reach its caller; when a query
\* fails it returns the result of the emergency path, also on a store whose
\* every query fails.
C5_NeverPropagates ==
    \A r \in Req :
        pc[r] = "picked"
        => /\ ~picked[r][1].raised
           /\ dbMode # "up" => picked[r][1].path = "emergency"

\* C9: two calls of pick_funds with the same arguments on the same store,
\* which answers every query, return the same list, in the same order, also when stored funds tie on
\* every ranking key.
C9_SameCallSameFunds ==
    (pc[1] = "picked" /\ pc[2] = "picked" /\ dbMode = "up")
    => picked[1][1].funds = picked[2][1].funds

(***************************************************************************)
(* Properties of the allocation (SpecAlloc)                                *)
(***************************************************************************)
\* C2 as stated: the three weights sum to 1.0 within 1e-6 after the
\* preference tilt, the liquidity overlay, the behavioral adjustment and the
\* tax tilt.
C2_SumIsOneAfterEveryStep ==
    \A r \in Req :
        phase[r] \in { "tilt", "liquidity", "behavioral", "tax" }
        => Abs(Total(allocation[r]) - ONE) <= ONE \div 1000000

\* C2 amended: the weights sum to 1.0 within 1e-6 after the glide path, after
\* the behavioral adjustment and in the allocation apply_tax_optimization
\* returns; the allocation allocate_portfolio returns, rounded to two decimals
\* after its normalization, sums to 1.0 within 0.01.
C2_SumIsOneAfterNormalization ==
    \A r \in Req :
        /\ phase[r] \in { "glide", "behavioral", "tax" }
           => Abs(Total(allocation[r]) - ONE) <= ONE \div 1000000
        /\ phase[r] = "rounded" => Abs(Total(allocation[r]) - ONE) <= ONE \div 100

\* A profile whose preference, liquidity need, reaction and income all move
\* the weights has been through the tax optimization.
C2_Witness ==
    /\ phase[1] = "tax"
    /\ profile[1].preference = "esg, tax-saving"
    /\ profile[1].need_liquidity
    /\ profile[1].market_reactions = "panic_sell"
    /\ Val(profile[1].income) = 6000000
    /\ allocation[1].equity > 0

(***************************************************************************)
(* Properties of validate_affordability (SpecAfford)                       *)
(***************************************************************************)
\* C3: in the check returned for a profile with positive income the
\* suggested SIP is at most max_affordable_amount, both as returned, and the
\* timeline multiplier is at least 1 when an affordability issue is reported.
C3_SuggestedWithinAffordable ==
    \A r \in Req :
        (pc[r] = "funds" /\ Truthy(profile[r].income))
        => /\ affordability[r].suggested_sip
                  <= 100 * Val(affordability[r].max_affordable_amount)
           /\ affordability[r].affordability_issue
                  => Val(affordability[r].timeline_multiplier) >= 10

(***************************************************************************)
(* Properties of a request (Spec)                                          *)
(***************************************************************************)
\* C6: a profile with a positive goal amount and a timeline of at least one
\* year is never rejected, whatever its risk appetite, the store's behaviour
\* and the attributes absent from the selected funds.
C6_ValidProfileNeverRejected ==
    \A r \in Req :
        (~invalid_goal(profile[r]) /\ profile[r].goal_timeline_years >= 1)
        => result[r].status # "rejected"

\* C7: a request whose goal amount is missing, zero or negative ends
\* rejected, with an error and no recommendation, and no store query is
\* issued for it.
C7_InvalidGoalRejectedBeforeQueries ==
    \A r \in Req :
        (IsNone(profile[r].goal_amount) \/ Val(profile[r].goal_amount) <= 0)
        => /\ pc[r] \in { "idle", "request", "validate", "rejected" }
           /\ pc[r] = "rejected"
                  => /\ result[r].status = "rejected"
                     /\ result[r].error # ""
                     /\ "recommendation" \notin DOMAIN result[r]
           /\ pc[r] # "rejected" => result[r] = NoResult
           /\ queries[r] = 0
           /\ picked[r] = << >>
           /\ recommended_funds[r] = << >>

\* recommend_portfolio has rejected a missing goal amount on a store that
\* holds funds and answers.
C7_Witness ==
    /\ pc[1] = "rejected"
    /\ IsNone(profile[1].goal_amount)
    /\ result[1] = Rejected("engine", "Valid goal amount is required for recommendations")
    /\ store # { }
    /\ dbMode = "up"

\* The response of a finished request: each narrative field is the
\* placeholder when its service failed and the service's output otherwise
\* (the flags after a failure being failed_flags), and the numbers are those
\* the engine computed.
ResponseAsExpected(r, failed_flags) ==
    LET rec == result[r].recommendation
    IN  /\ rec.llm_feedback =
               IF "human_summary" \in llm[r].failed THEN LlmUnavailable
               ELSE "professional feedback"
        /\ rec.flags =
               IF "flags" \in llm[r].failed THEN failed_flags
               ELSE { flag \in FlagNames : FlagHolds(flag, safe_dict_conversion(rec)) }
        /\ rec.story =
               IF "story_summary" \in llm[r].failed THEN StoryUnavailable
               ELSE "portfolio story"
        /\ rec.recommended_allocation = allocation[r]
        /\ rec.target_corpus = corpus[r]
        /\ rec.suggested_sip = affordability[r].suggested_sip
        /\ rec.recommended_funds =
               [ asset \in DOMAIN recommended_funds[r] |->
                   [ i \in 1..Len(recommended_funds[r][asset]) |->
                       RecommendedFund(recommended_funds[r][asset][i]) ] ]

\* C8 as stated: for every subset of the three narrative steps that fails,
\* the failing ones are replaced by their placeholder, an empty flag list for
\* the flags, the others keep their output and the numbers are unchanged.
C8_FailuresReplacedByEmptyFlags ==
    \A r \in Req : pc[r] = "done" => ResponseAsExpected(r, { })

\* C8 amended: as stated, except that a failed flag extraction yields the
\* one-element list ["flag_extraction_error"] of extract_flags' own handler.
C8_FailuresReplacedByPlaceholders ==
    \A r \in Req : pc[r] = "done" => ResponseAsExpected(r, { "flag_extraction_error" })

\* A response with funds has been returned after the flag extraction alone
\* failed.
C8_Witness ==
    /\ pc[1] = "done"
    /\ llm[1].failed = { "flags" }
    /\ result[1].recommendation.flags = { "flag_extraction_error" }
    /\ result[1].recommendation.llm_feedback = "professional feedback"
    /\ fund_count(recommended_funds[1]) > 0

(***************************************************************************)
(* Properties of two interleaved requests (SpecConc)                       *)
(***************************************************************************)
\* The state of request r, past validation and with a base equity, given the
\* allocation a, the SIP and the affordability check aff of its profile alone.
AloneState(r, a, sip, aff) ==
    /\ pc[r] \notin { "validate", "corpus" } => corpus[r] = calculate_goal_corpus(profile[r])
    /\ phase[r] = "rounded" => allocation[r] = allocate_portfolio(profile[r])
    /\ phase[r] = "tax" => allocation[r] = a
    /\ pc[r] \in { "afford", "funds", "build", "returned", "rejected" } => base_sip[r] = sip
    /\ pc[r] \in { "funds", "build", "returned", "rejected" } => affordability[r] = aff
    /\ \A i \in 1..Len(picked[r]) :
           \E order \in ScanOrders, eorder \in ScanOrders :
               picked[r][i] = select_funds(profile[r], a, AssetClasses[i], store, dbMode,
                                           order, eorder)
    /\ pc[r] = "returned"
           => result[r] = Answered(PortfolioRecommendation(
                              profile[r], a, calculate_goal_corpus(profile[r]), aff,
                              recommended_funds[r], fund_warnings[r]))
    /\ pc[r] = "rejected" => result[r] = Rejected("engine", "ValidationError")

\* The state of request r is what its own profile and the store determine.
AsWhenAlone(r) ==
    IF invalid_goal(profile[r])
    THEN /\ pc[r] \in { "validate", "rejected" }
         /\ pc[r] = "rejected"
                => result[r] = Rejected("engine",
                                        "Valid goal amount is required for recommendations")
         /\ allocation[r] = NoAllocation
         /\ picked[r] = << >>
    ELSE IF determine_base_equity_raises(profile[r])
    THEN /\ pc[r] \in { "validate", "corpus", "base", "rejected" }
         /\ pc[r] = "rejected" => result[r] = Rejected("engine", "KeyError")
         /\ allocation[r] = NoAllocation
         /\ picked[r] = << >>
    ELSE \E a \in { apply_tax_optimization(allocate_portfolio(profile[r]), profile[r]) } :
         \E sip \in { calculate_sip_amount(profile[r], a) } :
         \E aff \in { validate_affordability(profile[r], sip) } :
             AloneState(r, a, sip, aff)

\* C10: however the steps of two requests interleave, each request's
\* allocation, affordability check, selected funds and result are those of its
\* own profile alone, the four class-level tables keep their contents, and no
\* step changes a profile or the stored funds.
C10_RequestsIndependent ==
    /\ [](/\ ASSET_RETURNS = AssetReturnsTable
          /\ INFLATION_MATRIX = InflationTable
          /\ BEHAVIOR_ADJUSTMENTS = BehaviorTable
          /\ ASSET_CLASS_MAPPING = AssetClassTable
          /\ \A r \in Req : AsWhenAlone(r))
    /\ [][profile' = profile /\ store' = store]_vars

\* Two requests with different profiles have both returned, with different
\* allocations.
C10_Witness ==
    /\ pc[1] = "returned"
    /\ pc[2] = "returned"
    /\ profile[1] # profile[2]
    /\ allocation[1] # allocation[2]
    /\ fund_count(recommended_funds[1]) > 0

C12_EmergencyFundsFlagged ==
    \A r \in Req :
        LET from_emergency(i) ==
                /\ picked[r][i].path \in { "emergency", "second_fallback" }
                /\ Len(picked[r][i].funds) > 0
            noted(i) ==
                \E k \in 1..Len(fund_warnings[r]) :
                    fund_warnings[r][k] = << AssetClasses[i], "fallback_options" >>
        IN  /\ \A i \in 1..Len(picked[r]) :
                   /\ from_emergency(i)
                          => \A k \in 1..Len(picked[r][i].funds) :
                                 is_fallback(picked[r][i].funds[k])
                   /\ from_emergency(i) <=> noted(i)
            /\ (pc[r] \in { "story", "respond", "done" } /\ "flags" \notin llm[r].failed)
                   => ("fallback_funds_used" \in llm[r].flags
                           <=> \E i \in 1..Len(picked[r]) : from_emergency(i))

(***************************************************************************)
(* The filter loop of pick_funds (SpecPick)                                *)
(***************************************************************************)
\* C13: in the filter loop a criterion of priority below 9 never takes a
\* non-empty pool to an empty one: the pool the next filter is tested on (or,
\* after the last filter, the pool the final query ranks) is non-empty again.
\* Only asset_class and basic_safety reduce a non-empty pool to zero.
C13_RefinementNeverEmptiesPool ==
    \A r \in Req :
        (picked[r] # << >> /\ ~picked[r][1].raised)
        => \A i \in 1..Len(picked[r][1].log) :
               LET log == picked[r][1].log
                   nonempty_after ==
                       IF i < Len(log) THEN log[i + 1].before > 0
                       ELSE picked[r][1].path = "normal" /\ Len(picked[r][1].funds) > 0
               IN  /\ (log[i].priority < 9 /\ log[i].before > 0) => nonempty_after
                   /\ (log[i].before > 0 /\ ~nonempty_after)
                          => log[i].name \in { "asset_class", "basic_safety" }

\* A criterion of priority 5 to 8 matched no row of a non-empty pool.
C13_Witness ==
    /\ picked[1] # << >>
    /\ ~picked[1][1].raised
    /\ \E i \in 1..Len(picked[1][1].log) :
           /\ picked[1][1].log[i].priority \in 5..8
           /\ picked[1][1].log[i].before > 0
           /\ picked[1][1].log[i].count = 0
    /\ Len(picked[1][1].funds) > 0

(***************************************************************************)
(* The worked scenario of the specification (Spec)                         *)
(***************************************************************************)
\* C14: for the profile {age 30, income 1,200,000, risk appetite medium, goal
\* wealth_growth, goal amount 5,000,000, timeline 10 years, no preferences, no
\* liquidity flags, neutral market reaction} the recommended equity weight
\* lies between 0.5 and 0.75, the gold weight between 0.05 and 0.08 with debt
\* the remainder, the target corpus is greater than 5,000,000 and the
\* suggested contribution is positive.
C14_ScenarioWithinExpectedRanges ==
    \A r \in Req :
        (profile[r] = BaseProfile /\ pc[r] = "returned")
        => LET rec == result[r].recommendation
               a == rec.recommended_allocation
           IN  /\ Pct(50) <= a.equity /\ a.equity <= Pct(75)
               /\ Pct(5) <= a.gold /\ a.gold <= Pct(8)
               /\ a.debt = ONE - a.equity - a.gold
               /\ rec.target_corpus > 5000000
               /\ rec.suggested_sip > 0

(***************************************************************************)
(* Properties of recommend_portfolio (SpecEngine)                          *)
(***************************************************************************)
\* C15: a profile without an income figure does not make the recommendation
\* fail: the base equity is that of a profile in the income band without
\* adjustment, the tax tilt leaves the allocation of allocate_portfolio
\* unchanged, the affordability check reports no issue and keeps the proposed
\* contribution, and recommend_portfolio returns a result.
C15_MissingIncomeDoesNotFail ==
    \A r \in Req :
        (IsNone(profile[r].income) /\ ~invalid_goal(profile[r]))
        => /\ phase[r] = "glide"
                  => allocation[r].equity
                         = FMul(determine_base_equity([ profile[r] EXCEPT !.income = Some(750000) ]),
                                glide_factor(profile[r]))
           /\ phase[r] = "tax" => allocation[r] = allocate_portfolio(profile[r])
           /\ pc[r] \in { "funds", "build", "returned" }
                  => /\ ~affordability[r].affordability_issue
                     /\ affordability[r].suggested_sip = base_sip[r]
           /\ pc[r] # "rejected"
           /\ pc[r] = "returned" => result[r].status = "ok"

(***************************************************************************)
(* Properties of the risk analysis (SpecRisk)                              *)
(***************************************************************************)
\* C16: in the risk analysis of a non-empty holdings list, each holding whose
\* share of the total current value exceeds 20% has its own concentration_risk
\* entry reporting that holding's weight (HIGH when the share exceeds 30%,
\* otherwise MEDIUM) and its own risk_flags entry, and the risk score is
\* min(100, 20 x holdings above 20% + 15 x sectors above 25% + 25 x asset
\* classes above 80%).
C16_EveryConcentratedHoldingCounted ==
    analysis.step = "risk"
    => LET total == SumOver(holdings, DOMAIN holdings)
           risk == analysis.risk_analysis
           above(i) == current_value(holdings[i]) * 100 > 20 * total
           Above == { i \in DOMAIN holdings : above(i) }
           Sectors == { holdings[i].sector : i \in DOMAIN holdings }
           Assets == { holdings[i].asset_type : i \in DOMAIN holdings }
           HoldingFlags == { k \in DOMAIN risk.risk_flags : risk.risk_flags[k][1] = "holding" }
       IN  /\ \A i \in Above :
                 /\ holdings[i].name \in DOMAIN risk.concentration_risk
                 /\ risk.concentration_risk[holdings[i].name].weight
                        = RoundHalfEven(current_value(holdings[i]) * 10000, total)
                 /\ risk.concentration_risk[holdings[i].name].risk_level
                        = IF current_value(holdings[i]) * 100 > 30 * total
                          THEN "HIGH" ELSE "MEDIUM"
           /\ Cardinality(DOMAIN risk.concentration_risk) = Cardinality(Above)
           /\ Cardinality(HoldingFlags) = Cardinality(Above)
           /\ risk.risk_score
                  = Min(100,
                        20 * Cardinality(Above)
                        + 15 * Cardinality({ s \in Sectors :
                              SumOver(holdings, { i \in DOMAIN holdings : holdings[i].sector = s })
                                  * 100 > 25 * total })
                        + 25 * Cardinality({ a \in Assets :
                              SumOver(holdings, { i \in DOMAIN holdings : holdings[i].asset_type = a })
                                  * 100 > 80 * total }))

\* C17 as stated: when the proposed contribution exceeds the cap, the result
\* carries the original contribution and the affordable one, equal to the cap,
\* with timeline_multiplier = proposed / affordable, and target_corpus,
\* recommended_allocation and expected_return_percent are what the profile
\* gives without the cap.
C17_CapIsAdvisoryExactFigures ==
    \A r \in Req :
        (pc[r] = "returned" /\ affordability[r].affordability_issue)
        => \E a \in { apply_tax_optimization(allocate_portfolio(profile[r]), profile[r]) } :
           \E sip \in { calculate_sip_amount(profile[r], a) } :
           \E rec \in { result[r].recommendation } :
               /\ rec.affordability_check.original_sip = Some(sip)
               /\ rec.affordability_check.suggested_sip * 12 = max_affordable(profile[r])
               /\ rec.suggested_sip = rec.affordability_check.suggested_sip
               /\ MulDivQR(sip, 10, rec.affordability_check.suggested_sip)
                      = << Val(rec.affordability_check.timeline_multiplier), 0 >>
               /\ rec.target_corpus = calculate_goal_corpus(profile[r])
               /\ rec.recommended_allocation = a
               /\ rec.expected_return_percent
                      = RoundHalfEven(blended_return(a, profile[r].goal_timeline_years), 10000)

\* C17 amended: the affordable contribution reported is the cap rounded to
\* the rupee, and the timeline multiplier is proposed / cap rounded to one
\* decimal; the corpus, the allocation and the expected return are those the
\* profile gives without the cap.
C17_CapIsAdvisoryOnly ==
    \A r \in Req :
        (pc[r] = "returned" /\ affordability[r].affordability_issue)
        => \E a \in { apply_tax_optimization(allocate_portfolio(profile[r]), profile[r]) } :
           \E sip \in { calculate_sip_amount(profile[r], a) } :
           \E cap \in { max_affordable(profile[r]) } :
           \E rec \in { result[r].recommendation } :
               /\ sip * 12 > cap
               /\ rec.affordability_check.original_sip = Some(sip)
               /\ rec.affordability_check.suggested_sip = 100 * RoundHalfEven(cap, Tick)
               /\ rec.suggested_sip = rec.affordability_check.suggested_sip
               /\ rec.affordability_check.timeline_multiplier
                      = Some(RoundQR(MulDivQR(sip, 120, cap), cap))
               /\ rec.target_corpus = calculate_goal_corpus(profile[r])
               /\ rec.recommended_allocation = a
               /\ rec.expected_return_percent
                      = RoundHalfEven(blended_return(a, profile[r].goal_timeline_years), 10000)

\* A recommendation was returned whose proposed contribution exceeded the cap.
C17_Witness ==
    /\ pc[1] = "returned"
    /\ result[1].status = "ok"
    /\ result[1].recommendation.affordability_check.affordability_issue
    /\ Val(result[1].recommendation.affordability_check.original_sip)
           > result[1].recommendation.suggested_sip
    /\ result[1].recommendation.target_corpus > Val(profile[1].goal_amount)

\* C18 as stated: each criterion of the chain, taken in descending priority
\* against the running query, is committed when its count is at least
\* max(2 x limit, 10) or it is mandatory (priority >= 9); otherwise it is
\* skipped when it would leave no candidate and applied as relaxed when it
\* would leave a positive count below the floor, whatever its priority.
C18_RelaxedWhateverPriority ==
    \A r \in Req :
        (picked[r] # << >> /\ ~picked[r][1].raised)
        => \A i \in 1..Len(picked[r][1].log) :
               LET e == picked[r][1].log[i]
                   floor == Max(2 * pickArgs[r].limit, 10)
               IN  /\ i > 1 => picked[r][1].log[i - 1].priority >= e.priority
                   /\ i > 1 => e.before = IF picked[r][1].log[i - 1].decision = "skipped"
                                          THEN picked[r][1].log[i - 1].before
                                          ELSE picked[r][1].log[i - 1].count
                   /\ e.decision = IF e.count >= floor \/ e.priority >= 9 THEN "applied"
                                   ELSE IF e.count = 0 THEN "skipped"
                                   ELSE "relaxed"

\* C18 amended: a non-mandatory criterion whose count is below the floor is
\* applied as relaxed only when the count is positive and its priority is 5
\* to 8; a criterion of priority 3 or 4 below the floor is skipped, whether
\* its count is zero or positive.
C18_RelaxedFromPriorityFive ==
    \A r \in Req :
        (picked[r] # << >> /\ ~picked[r][1].raised)
        => \A i \in 1..Len(picked[r][1].log) :
               LET e == picked[r][1].log[i]
                   floor == Max(2 * pickArgs[r].limit, 10)
               IN  /\ i > 1 => picked[r][1].log[i - 1].priority >= e.priority
                   /\ i > 1 => e.before = IF picked[r][1].log[i - 1].decision = "skipped"
                                          THEN picked[r][1].log[i - 1].before
                                          ELSE picked[r][1].log[i - 1].count
                   /\ e.decision = IF e.count >= floor \/ e.priority >= 9 THEN "applied"
                                   ELSE IF e.count > 0 /\ e.priority >= 5 THEN "relaxed"
                                   ELSE "skipped"

\* One call met a criterion of priority 5 to 8 applied as relaxed and a
\* criterion of priority below 5 skipped with a positive count.
C18_Witness ==
    /\ picked[1] # << >>
    /\ ~picked[1][1].raised
    /\ \E i \in 1..Len(picked[1][1].log) :
           /\ picked[1][1].log[i].priority \in 5..8
           /\ picked[1][1].log[i].decision = "relaxed"
           /\ picked[1][1].log[i].count > 0
    /\ \E i \in 1..Len(picked[1][1].log) :
           /\ picked[1][1].log[i].priority < 5
           /\ picked[1][1].log[i].count > 0
           /\ picked[1][1].log[i].decision = "skipped"

\* C19: for all valid profiles no asset-class weight is negative at any point
\* of the allocation: before the liquidity overlay its reduction factor
\* 0.10 / (equity + gold) is at most 1, the weights after the behavioral
\* deltas are clamped to 0 or more, and the divisor of each renormalization
\* (the sum of the weights) is positive.
C19_NoNegativeWeight ==
    \A r \in Req :
        /\ \A asset \in { "equity", "debt", "gold" } : allocation[r][asset] >= 0
        /\ (phase[r] = "tilt" /\ (profile[r].need_liquidity \/ profile[r].expected_large_expense))
               => /\ allocation[r].equity + allocation[r].gold > 0
                  /\ reduction_factor(allocation[r]) <= ONE
        /\ phase[r] = "liquidity"
               => \E adjusted \in { BehavioralDeltas(allocation[r], profile[r]) } :
                      /\ \A asset \in { "equity", "debt", "gold" } : adjusted[asset] >= 0
                      /\ Total(adjusted) > 0
        /\ phase[r] = "behavioral" => Total(allocation[r]) > 0

\* The liquidity overlay has reduced equity and gold and the panic-sell delta
\* (equity - 0.15) was clamped: equity is 0 after the behavioral adjustment.
C19_Witness ==
    /\ phase[1] = "behavioral"
    /\ profile[1].need_liquidity
    /\ profile[1].market_reactions = "panic_sell"
    /\ allocation[1].equity = 0
    /\ allocation[1].gold > 0

\* C20: the glide path keeps equity higher for longer horizons: for two
\* profiles that differ only in the goal timeline, the equity weight after
\* the glide-path step of the profile with the longer timeline is greater
\* than or equal to that of the profile with the shorter timeline.
C20_LongerTimelineKeepsEquityHigher ==
    \A r \in Req :
        phase[r] = "glide"
        => \A years \in { 1, 2, 5, 10, 15, 20, 30, 50 } :
               years >= profile[r].goal_timeline_years
               => \E longer \in { [ profile[r] EXCEPT !.goal_timeline_years = years ] } :
                      GlideGoldDebt(longer, determine_base_equity(longer)).equity
                          >= allocation[r].equity

\* C22: for every risk appetite the orchestrator passes to the selector, the
\* filter chain of each selection contains the risk-level alignment criterion
\* with priority 5, after the mandatory, goal and timeline criteria and
\* before the experience and preference criteria.
C22_RiskAlignmentInEveryChain ==
    \A r \in Req : \A k \in 1..Len(picked[r]) :
        (pc[r] \in { "funds", "build", "returned" } /\ picked[r][k].entry)
        => \E chain \in { build_filter_chain(fund_args(profile[r], AssetClasses[k])) } :
               \E i \in 1..Len(chain) :
                   /\ chain[i] = FundFilter("risk_alignment", 5)
                   /\ \A j \in 1..Len(chain) :
                          /\ chain[j].priority > 5 => j < i
                          /\ chain[j].name \in { "beginner_friendly", "preferences" } => j > i

C27_CapWithinDisposableIncome ==
    \A r \in Req :
        (pc[r] = "funds" /\ affordability[r] # None /\ Truthy(profile[r].income))
        => \E cap \in { max_affordable(profile[r]) } :
               /\ affordability[r].max_affordable_amount = Some(RoundHalfEven(cap, Tick))
               /\ cap <= disposable_income(profile[r])
               /\ \A q \in AffordProfiles :
                      (q.income = profile[r].income
                          /\ disposable_income(q) >= disposable_income(profile[r]))
                      => max_affordable(q) >= cap

\* C28: recommend_portfolio asks the selector for funds for exactly the asset
\* classes whose final weight is strictly greater than 0.05: recommended_funds
\* has an entry for each such class (an empty list when the selection failed)
\* and no entry for a class whose weight is 0.05 or less.
C28_FundsForWeightsAboveFivePercent ==
    \A r \in Req :
        /\ pc[r] = "build"
               => DOMAIN recommended_funds[r]
                      = { asset \in { "equity", "debt", "gold" } : allocation[r][asset] > Pct(5) }
        /\ pc[r] = "returned"
               => \E rec \in { result[r].recommendation } :
                      DOMAIN rec.recommended_funds
                          = { asset \in { "equity", "debt", "gold" } :
                                  rec.recommended_allocation[asset] > Pct(5) }

\* A recommendation was returned in which gold weighs exactly 0.05 and has
\* no entry, while equity and debt weigh more and have one.
C28_Witness ==
    /\ pc[1] = "returned"
    /\ result[1].recommendation.recommended_allocation.gold = Pct(5)
    /\ DOMAIN result[1].recommendation.recommended_funds = { "equity", "debt" }

\* C30 as stated: apply_tax_optimization never lowers the equity share and
\* never raises the debt or gold share: for every allocation with positive
\* weights the normalized equity weight of its output is at least that of its
\* input, and the normalized debt and gold weights are at most those of the
\* input.
C30_EquityUpDebtAndGoldDown ==
    \A r \in Req :
        phase[r] = "tax"
        => \E input \in { allocate_portfolio(profile[r]) } :
               (input.equity > 0 /\ input.debt > 0 /\ input.gold > 0)
               => /\ allocation[r].equity >= Normalize(input).equity
                  /\ allocation[r].debt <= Normalize(input).debt
                  /\ allocation[r].gold <= Normalize(input).gold

\* C30 amended: the normalized equity weight of the output is at least that
\* of the input and the normalized gold weight is at most that of the input;
\* the debt weight, which no multiplier touches, moves with the total and
\* rises when the cut of gold outweighs the boost of equity.
C30_EquityUpGoldDown ==
    \A r \in Req :
        phase[r] = "tax"
        => \E input \in { allocate_portfolio(profile[r]) } :
               (input.equity > 0 /\ input.debt > 0 /\ input.gold > 0)
               => /\ allocation[r].equity >= Normalize(input).equity
                  /\ allocation[r].gold <= Normalize(input).gold
                  /\ (allocation[r].debt > Normalize(input).debt
                         => Total(TaxTilt(input, profile[r])) < Total(input))

\* The tax step has raised the equity share, cut the gold share and raised
\* the debt share of an allocation with positive weights.
C30_Witness ==
    /\ phase[1] = "tax"
    /\ \E input \in { allocate_portfolio(profile[1]) } :
           /\ input.equity > 0 /\ input.debt > 0 /\ input.gold > 0
           /\ allocation[1].equity > Normalize(input).equity
           /\ allocation[1].gold < Normalize(input).gold
           /\ allocation[1].debt > Normalize(input).debt

\* C21: in the portfolio overview each holding's portfolio_weight is its
\* current value over the total current value of all the holdings, times 100
\* and rounded to two decimals, whatever its position in the list.
C21_WeightAgainstTheTotal ==
    (analysis.step \notin { "none", "start" } /\ total_current_value(holdings) > 0)
    => \A i \in 1..Len(holdings) :
           analysis.holdings_detail[i].portfolio_weight
               = RoundedWeight(current_value(holdings[i]), total_current_value(holdings))

\* C23: the alignment score is max(0, 100 - the sum of the deviations of the
\* classes among equity, debt and gold that deviate from the ideal share by
\* strictly more than 10 points), and rebalancing_needed names exactly those
\* classes: a deviation of exactly 10 points or less subtracts nothing.
C23_OnlyDeviationsAboveTenCount ==
    analysis.step \in { "goal", "returned" }
    => \E pv \in { analysis.total_portfolio_value } :
       \E ideal \in { analysis.goal_alignment.ideal_allocation } :
           LET above(a) == Abs(class_value(holdings, a) * 100 - ideal_percent(ideal, a) * pv)
                               > 10 * pv
               counted(a) == IF above(a)
                             THEN Abs(class_value(holdings, a) * 100
                                        - ideal_percent(ideal, a) * pv)
                             ELSE 0
               penalty == counted("equity") + counted("debt") + counted("gold")
               needed == analysis.goal_alignment.rebalancing_needed
           IN  /\ { needed[n].asset : n \in 1..Len(needed) }
                      = { a \in { "equity", "debt", "gold" } : above(a) }
               /\ analysis.goal_alignment.alignment_score
                      = IF penalty >= 100 * pv THEN 0
                        ELSE RoundQR(MulDivQR(100 * pv - penalty, 100, pv), pv)

\* C24: an asset class gets a rebalancing action exactly when the gap
\* between portfolio value x ideal weight and its current value exceeds 5% of
\* the portfolio value; the action is BUY when the ideal value is the larger
\* and SELL otherwise, its amount is the gap, its priority HIGH exactly when
\* the gap exceeds 15% of the portfolio value and MEDIUM otherwise, and
\* rebalancing_required holds exactly when there is an action.
C24_ActionExactlyAboveFivePercent ==
    analysis.step = "returned"
    => \E pv \in { analysis.total_portfolio_value } :
       \E ideal \in { analysis.rebalancing_suggestions.ideal_allocation } :
           LET actions == analysis.rebalancing_suggestions.rebalancing_actions
               gap(a) == Abs(ideal_percent(ideal, a) * pv - class_value(holdings, a) * 100)
           IN  /\ { actions[n].asset : n \in 1..Len(actions) }
                      = { a \in { "equity", "debt", "gold" } : gap(a) > 5 * pv }
               /\ \A n \in 1..Len(actions) :
                      /\ actions[n].amount = gap(actions[n].asset)
                      /\ actions[n].action
                             = IF ideal_percent(ideal, actions[n].asset) * pv
                                      > class_value(holdings, actions[n].asset) * 100
                               THEN "BUY" ELSE "SELL"
                      /\ actions[n].priority
                             = IF gap(actions[n].asset) > 15 * pv THEN "HIGH" ELSE "MEDIUM"
               /\ analysis.rebalancing_suggestions.rebalancing_required = (Len(actions) > 0)

\* C25: for one profile, the ideal allocation that the analyzer compares the
\* holdings against, in goal alignment and in the rebalancing suggestions, is
\* the allocation that recommend_portfolio returns as recommended_allocation
\* (lines 447-450: allocate_portfolio, then apply_tax_optimization).
C25_IdealIsRecommendedAllocation ==
    \E recommended \in { IF determine_base_equity_raises(profile[1]) THEN NoAllocation
                         ELSE apply_tax_optimization(allocate_portfolio(profile[1]),
                                                     profile[1]) } :
        /\ analysis.step \in { "goal", "returned" }
               => analysis.goal_alignment.ideal_allocation = recommended
        /\ analysis.step = "returned"
               => analysis.rebalancing_suggestions.ideal_allocation = recommended

\* C29: on holdings with positive quantity and prices and a profile on which
\* the allocation succeeds, analyze_comprehensive fails exactly when the
\* holdings list is empty: on a non-empty list no step divides by zero.
C29_FailsExactlyOnEmptyList ==
    ~determine_base_equity_raises(profile[1])
    => /\ analysis.step = "failed" => holdings = << >>
       /\ (holdings = << >> /\ analysis.step \notin { "none", "start", "basic", "risk" })
              => analysis.step = "failed"

=============================================================================
